---- MODULE Spec2Model ----
(***************************************************************************)
(* A model of the code_graph package: the hybrid scorer, the graph         *)
(* distance calculator, the parse diagnosis of the language parsers, the   *)
(* FileNode model, the in-memory graph store, the repository indexer, the  *)
(* context pack builder and the query engine, the imports, classes and     *)
(* edges the Python parser extracts, the decorators the TypeScript parser  *)
(* attaches to methods, and the confidence utilities.                      *)
(*                                                                         *)
(* Python floats are modelled as exact rationals <<numerator,              *)
(* denominator>> (denominator > 0, lowest terms), so arithmetic here is    *)
(* exact where the code rounds to the nearest double.                      *)
(***************************************************************************)
EXTENDS Integers, Sequences, FiniteSets, TLC

VARIABLES
    scorer,        \* the HybridScorer the caller holds (exists = FALSE: none)
    ctor_call,     \* the last HybridScorer(...) call: arguments and outcome
    score_call,    \* the last score / score_query call: arguments and outcome
    parse_call,    \* the last parser.parse_file call: content and outcome
    reparse_calls, \* the later parse_file calls on the same content, in order
    fn_call,       \* the last FileNode(...) call: arguments and outcome
    methods_call,  \* the last TypeScript method extraction: content and outcome
    store_files,   \* GraphStore.files: id -> FileNode
    store_functions, \* GraphStore.functions: id -> FunctionNode
    store_edges,   \* GraphStore.edges: the list of edges
    dist_call,     \* the last calculate_distance call: arguments and outcome
    bfs_call,      \* a calculate_distance call in progress: its locals
    fs,            \* the repository on disk: path -> entry
    pc,            \* where index_repository is: "idle", "scanning", "crashed"
    pending,       \* the paths rglob has still to yield
    files_indexed, \* local of index_repository
    functions_found, \* local of index_repository
    errors,        \* local of index_repository
    index_result,  \* the IndexResult last returned
    runs,          \* index_repository calls so far
    writes,        \* changes made to the repository after the start
    fresh,         \* the repository is as the last run saw it
    query_call,    \* the ContextPackBuilder.build call: arguments, locals, outcome
    confidence_call \* the last confidence utility call: arguments and outcome

scorerVars == <<scorer, ctor_call, score_call>>
parseVars == <<parse_call, reparse_calls, fn_call, methods_call>>
storeVars == <<store_files, store_functions, store_edges>>
distVars == <<dist_call, bfs_call>>
indexVars ==
    <<fs, pc, pending, files_indexed, functions_found, errors, index_result,
      runs, writes, fresh>>

queryVars == <<query_call>>
confVars == <<confidence_call>>

vars ==
    <<scorerVars, parseVars, storeVars, distVars, indexVars, queryVars,
      confVars>>

(***************************************************************************)
(* Exact rationals standing for Python floats.                             *)
(***************************************************************************)
RECURSIVE GCD(_, _)
GCD(a, b) == IF b = 0 THEN a ELSE GCD(b, a % b)

IAbs(n) == IF n < 0 THEN -n ELSE n

\* n/d in lowest terms with a positive denominator (d # 0)
R(n, d) ==
    LET s == IF d < 0 THEN -1 ELSE 1
        g == GCD(IAbs(n), IAbs(d))
    IN  <<(s * n) \div g, (s * d) \div g>>

RAdd(a, b) == R(a[1] * b[2] + b[1] * a[2], a[2] * b[2])
RSub(a, b) == R(a[1] * b[2] - b[1] * a[2], a[2] * b[2])
RMul(a, b) == R(a[1] * b[1], a[2] * b[2])
RAbs(a) == <<IAbs(a[1]), a[2]>>
RLe(a, b) == a[1] * b[2] <= b[1] * a[2]
RLt(a, b) == a[1] * b[2] < b[1] * a[2]
RGt(a, b) == RLt(b, a)
Zero == R(0, 1)
One == R(1, 1)

(***************************************************************************)
(* models/context_pack.py: ScoreBreakdown                                  *)
(***************************************************************************)
\* Field(..., ge=0.0, le=1.0)
InUnit(x) == RLe(Zero, x) /\ RLe(x, One)

NoBreakdown ==
    [exc |-> "", semantic_score |-> Zero, graph_score |-> Zero,
     execution_score |-> Zero, hybrid_score |-> Zero]

\* ScoreBreakdown(...): pydantic validates the four fields and raises a
\* ValidationError when one lies outside [0, 1]
ScoreBreakdown(semantic_score, graph_score, execution_score, hybrid_score) ==
    IF /\ InUnit(semantic_score)
       /\ InUnit(graph_score)
       /\ InUnit(execution_score)
       /\ InUnit(hybrid_score)
    THEN [exc |-> "", semantic_score |-> semantic_score,
          graph_score |-> graph_score, execution_score |-> execution_score,
          hybrid_score |-> hybrid_score]
    ELSE [NoBreakdown EXCEPT !.exc = "ValidationError"]

(***************************************************************************)
(* retrieval/hybrid_scorer.py: HybridScorer                                *)
(***************************************************************************)
\* the default weights of __init__: 0.4, 0.4, 0.2
DefaultSemanticWeight == R(4, 10)
DefaultGraphWeight == R(4, 10)
DefaultExecutionWeight == R(2, 10)

\* abs(total - 1.0) > 0.001
WeightTolerance == R(1, 1000)

NoScorer ==
    [exists |-> FALSE, semantic_weight |-> Zero, graph_weight |-> Zero,
     execution_weight |-> Zero]

\* a slip: the absolute value forgotten in the tolerance test
HybridScorerRejectsNoAbs(total) == RGt(RSub(total, One), WeightTolerance)

\* HybridScorer.__init__: the new object, or exists = FALSE when it raises
\* ValueError
HybridScorerRejects(total) == RGt(RAbs(RSub(total, One)), WeightTolerance)

HybridScorerInit(semantic_weight, graph_weight, execution_weight) ==
    LET total == RAdd(RAdd(semantic_weight, graph_weight), execution_weight)
    IN  IF HybridScorerRejects(total)
        THEN NoScorer
        ELSE [exists |-> TRUE, semantic_weight |-> semantic_weight,
              graph_weight |-> graph_weight,
              execution_weight |-> execution_weight]

\* a slip: the execution weight applied to the graph score
HybridSumWrongTerm(self, semantic_score, graph_score, execution_score) ==
    RAdd(RAdd(RMul(self.semantic_weight, semantic_score),
              RMul(self.graph_weight, graph_score)),
         RMul(self.execution_weight, graph_score))

\* the weighted sum of HybridScorer.score
HybridSum(self, semantic_score, graph_score, execution_score) ==
    RAdd(RAdd(RMul(self.semantic_weight, semantic_score),
              RMul(self.graph_weight, graph_score)),
         RMul(self.execution_weight, execution_score))

\* HybridScorer.score
score(self, semantic_score, graph_score, execution_score) ==
    ScoreBreakdown(semantic_score, graph_score, execution_score,
                   HybridSum(self, semantic_score, graph_score, execution_score))

\* the placeholder semantic score of score_query
PlaceholderSemantic == R(8, 10)

\* execution_score = 1.0 if has_execution_signals else 0.0
ExecutionScoreOf(has_execution_signals) ==
    IF has_execution_signals THEN One ELSE Zero

\* HybridScorer.score_query: both embeddings are ignored by the code
score_query(self, graph_distance, has_execution_signals) ==
    IF 1 + graph_distance = 0
    THEN [NoBreakdown EXCEPT !.exc = "ZeroDivisionError"]
    ELSE score(self, PlaceholderSemantic, R(1, 1 + graph_distance),
               ExecutionScoreOf(has_execution_signals))

(***************************************************************************)
(* Inputs of the scorer                                                    *)
(***************************************************************************)
ScoreSteps == 4
MaxHops == 3

\* weights in thousandths: around the defaults, at both edges of the
\* tolerance, negative and above one
WeightThousandths == {-500, 0, 199, 200, 201, 202, 400, 500, 1000, 1500}
WeightValues == {R(k, 1000) : k \in WeightThousandths}

\* component scores k/ScoreSteps, one step outside [0, 1] on either side
ScoreValues == {R(k, ScoreSteps) : k \in -1 .. ScoreSteps + 1}

NoCtorCall ==
    [semantic_weight |-> Zero, graph_weight |-> Zero,
     execution_weight |-> Zero, raised |-> FALSE, called |-> FALSE]

NoScoreCall ==
    [op |-> "", semantic_score |-> Zero, graph_score |-> Zero,
     execution_score |-> Zero, graph_distance |-> 0,
     has_execution_signals |-> FALSE, result |-> NoBreakdown]

ScorerIdle ==
    /\ scorer = NoScorer
    /\ ctor_call = NoCtorCall
    /\ score_call = NoScoreCall

\* scorer = HybridScorer(sw, gw, ew). score and score_query do not change
\* the scorer, so a behaviour is one construction followed by one call.
Construct(sw, gw, ew) ==
    LET obj == HybridScorerInit(sw, gw, ew)
    IN  /\ ~ctor_call.called
        /\ scorer' = obj
        /\ ctor_call' = [semantic_weight |-> sw, graph_weight |-> gw,
                         execution_weight |-> ew, raised |-> ~obj.exists,
                         called |-> TRUE]
        /\ score_call' = NoScoreCall
        /\ UNCHANGED <<confVars, parseVars, queryVars, storeVars, distVars,
                       indexVars>>

\* scorer = HybridScorer()
ConstructDefault ==
    Construct(DefaultSemanticWeight, DefaultGraphWeight, DefaultExecutionWeight)

\* scorer.score(s, g, e)
Score(s, g, e) ==
    /\ scorer.exists
    /\ score_call.op = ""
    /\ score_call' = [NoScoreCall EXCEPT !.op = "score",
                         !.semantic_score = s, !.graph_score = g,
                         !.execution_score = e,
                         !.result = score(scorer, s, g, e)]
    /\ UNCHANGED <<confVars, scorer, ctor_call, parseVars, queryVars,
                   storeVars, distVars, indexVars>>

\* scorer.score_query(q, c, d, has)
ScoreQuery(d, has) ==
    /\ scorer.exists
    /\ score_call.op = ""
    /\ score_call' = [NoScoreCall EXCEPT !.op = "score_query",
                         !.graph_distance = d,
                         !.has_execution_signals = has,
                         !.result = score_query(scorer, d, has)]
    /\ UNCHANGED <<confVars, scorer, ctor_call, parseVars, queryVars,
                   storeVars, distVars, indexVars>>

ScorerNext ==
    \/ ConstructDefault
    \/ \E sw \in WeightValues, gw \in WeightValues, ew \in WeightValues :
          Construct(sw, gw, ew)
    \/ \E s \in ScoreValues, g \in ScoreValues, e \in ScoreValues :
          Score(s, g, e)
    \/ \E d \in -1 .. MaxHops, has \in BOOLEAN : ScoreQuery(d, has)

(***************************************************************************)
(* Syntax trees as tree-sitter returns them.  A content is the text of a   *)
(* file together with its tree: nodes[1] is the root, children are node    *)
(* indices, has_error is root_node.has_error.                              *)
(***************************************************************************)
Node(type, text, is_missing, children) ==
    [type |-> type, text |-> text, is_missing |-> is_missing,
     children |-> children]

RECURSIVE _count_errors_type_only(_, _), CountTypeOnlyIn(_, _)
\* a slip: missing nodes not counted
_count_errors_type_only(nodes, i) ==
    (IF nodes[i].type = "ERROR" THEN 1 ELSE 0)
        + CountTypeOnlyIn(nodes, nodes[i].children)

CountTypeOnlyIn(nodes, cs) ==
    IF cs = <<>> THEN 0
    ELSE _count_errors_type_only(nodes, Head(cs))
             + CountTypeOnlyIn(nodes, Tail(cs))

RECURSIVE _count_errors(_, _), CountErrorsIn(_, _)
\* PythonParser._count_errors (the same in the TypeScript and Go parsers)
_count_errors(nodes, i) ==
    (IF nodes[i].type = "ERROR" \/ nodes[i].is_missing THEN 1 ELSE 0)
        + CountErrorsIn(nodes, nodes[i].children)

\* the for loop of _count_errors over node.children
CountErrorsIn(nodes, cs) ==
    IF cs = <<>> THEN 0
    ELSE _count_errors(nodes, Head(cs)) + CountErrorsIn(nodes, Tail(cs))

\* a slip: the root's has_error flag is not consulted
handle_parse_errors_no_root_check(content) ==
    LET error_count == _count_errors(content.nodes, 1)
    IN  IF error_count = 0
        THEN [status |-> "success", error_count |-> 0]
        ELSE [status |-> "partial", error_count |-> error_count]

\* PythonParser.handle_parse_errors (the same in the TypeScript and Go
\* parsers)
handle_parse_errors(content) ==
    LET error_count == _count_errors(content.nodes, 1)
    IN  IF error_count = 0
        THEN [status |-> "success", error_count |-> 0]
        ELSE IF content.has_error
        THEN [status |-> "partial", error_count |-> error_count]
        ELSE [status |-> "failed", error_count |-> error_count]

(***************************************************************************)
(* models/nodes/file_node.py: FileNode                                     *)
(***************************************************************************)
\* hashlib.sha256(content.encode("utf-8")).hexdigest(): 64 hex characters,
\* taken to be free of collisions
Sha256(text) == [digest |-> <<"sha256", text>>, len |-> 64, hex |-> TRUE]

\* content_hash[:16]
Prefix16(content_hash) == <<"sha256[:16]", content_hash.digest[2]>>

\* the fields of FileNode in declaration order: pydantic validates them in
\* this order, and a validator's info.data holds the fields validated so far
FileNodeFields ==
    <<"id", "path", "language", "content_hash", "size_bytes", "parse_status",
      "error_count", "last_indexed", "embedding">>

FieldIndex(field) ==
    CHOOSE i \in 1 .. Len(FileNodeFields) : FileNodeFields[i] = field

\* the keys of info.data when the validator of `field` runs
InfoDataKeys(field) ==
    {FileNodeFields[i] : i \in 1 .. FieldIndex(field) - 1}

\* str.lower on the language tags used here
Lower(v) == IF v = "Python" THEN "python" ELSE v

SupportedLanguages == {"python", "typescript", "javascript", "go", "java"}

\* FileNode.validate_language passes
validate_language(v) == Lower(v) \in SupportedLanguages

\* FileNode.validate_content_hash passes
validate_content_hash(v) == v.len = 64 /\ v.hex

\* FileNode.validate_parse_status_consistency passes:
\* info.data.get("error_count", 0)
validate_parse_status_consistency(v, args) ==
    LET error_count ==
            IF "error_count" \in InfoDataKeys("parse_status")
            THEN args.error_count
            ELSE 0
    IN  ~(v = "success" /\ error_count > 0)

NoFileNode ==
    [exc |-> "", id |-> <<>>, path |-> "", language |-> "",
     content_hash |-> Sha256(""), size_bytes |-> 0, parse_status |-> "",
     error_count |-> 0]

\* FileNode(**args): the validated model, or exc = "ValidationError"
FileNode(args) ==
    IF /\ validate_language(args.language)
       /\ validate_content_hash(args.content_hash)
       /\ args.size_bytes >= 0
       /\ validate_parse_status_consistency(args.parse_status, args)
       /\ args.error_count >= 0
    THEN [exc |-> "", id |-> args.id, path |-> args.path,
          language |-> Lower(args.language),
          content_hash |-> args.content_hash,
          size_bytes |-> args.size_bytes,
          parse_status |-> args.parse_status,
          error_count |-> args.error_count]
    ELSE [NoFileNode EXCEPT !.exc = "ValidationError"]

(***************************************************************************)
(* indexer/parsers/python_parser.py: extraction                            *)
(***************************************************************************)
RECURSIVE _walk_tree(_, _), WalkChildren(_, _)
\* PythonParser._walk_tree: the node and its descendants in preorder
_walk_tree(nodes, i) == <<i>> \o WalkChildren(nodes, nodes[i].children)

WalkChildren(nodes, cs) ==
    IF cs = <<>> THEN <<>>
    ELSE _walk_tree(nodes, Head(cs)) \o WalkChildren(nodes, Tail(cs))

\* the children of node i that have the given type, in order
ChildrenOfType(nodes, i, types) ==
    SelectSeq(nodes[i].children, LAMBDA c : nodes[c].type \in types)

\* hashlib.md5(qualified_name.encode()).hexdigest()[:16]
Md5Prefix16(qualified_name) == <<"md5[:16]">> \o qualified_name

NoFunction == [found |-> FALSE, id |-> <<>>, name |-> "", qualified_name |-> <<>>]

\* PythonParser._extract_function_info: name and qualified name (a dotted
\* name is the sequence of its segments); found = FALSE stands for None
_extract_function_info(nodes, i, parent_path) ==
    LET ids == ChildrenOfType(nodes, i, {"identifier"})
        func_name == IF ids = <<>> THEN "" ELSE nodes[Head(ids)].text
        qualified_name == parent_path \o <<func_name>>
    IN  IF func_name = ""
        THEN NoFunction
        ELSE [found |-> TRUE, id |-> Md5Prefix16(qualified_name),
              name |-> func_name, qualified_name |-> qualified_name]

\* the FunctionNode of node i as a list: empty unless i is a
\* function_definition with a name
FunctionAt(nodes, i, parent_path) ==
    IF nodes[i].type = "function_definition"
           /\ _extract_function_info(nodes, i, parent_path).found
    THEN <<_extract_function_info(nodes, i, parent_path)>>
    ELSE <<>>

RECURSIVE FunctionsOf(_, _, _)
FunctionsOf(nodes, walk, parent_path) ==
    IF walk = <<>> THEN <<>>
    ELSE FunctionAt(nodes, Head(walk), parent_path)
             \o FunctionsOf(nodes, Tail(walk), parent_path)

\* PythonParser.extract_functions
extract_functions(nodes, i, parent_path) ==
    FunctionsOf(nodes, _walk_tree(nodes, i), parent_path)

RECURSIVE TextsOf(_, _)
\* the texts of the nodes cs, in order
TextsOf(nodes, cs) ==
    IF cs = <<>> THEN <<>>
    ELSE <<nodes[Head(cs)].text>> \o TextsOf(nodes, Tail(cs))

RECURSIVE BasesOf(_, _)
\* the identifiers of every argument_list in args, in order
BasesOf(nodes, args) ==
    IF args = <<>> THEN <<>>
    ELSE TextsOf(nodes, ChildrenOfType(nodes, Head(args), {"identifier"}))
             \o BasesOf(nodes, Tail(args))

NoClass == [found |-> FALSE, name |-> "", base_classes |-> <<>>, methods |-> <<>>]

\* PythonParser._extract_class_info
_extract_class_info(nodes, i, parent_path) ==
    LET ids == ChildrenOfType(nodes, i, {"identifier"})
        class_name == IF ids = <<>> THEN "" ELSE nodes[Head(ids)].text
        blocks == ChildrenOfType(nodes, i, {"block"})
        class_path == parent_path \o <<class_name>>
    IN  IF class_name = ""
        THEN NoClass
        ELSE [found |-> TRUE, name |-> class_name,
              base_classes |->
                  BasesOf(nodes, ChildrenOfType(nodes, i, {"argument_list"})),
              methods |->
                  IF blocks = <<>> THEN <<>>
                  ELSE extract_functions(nodes, Head(blocks), class_path)]

\* the ClassInfo of node i as a list: empty when the class has no name
ClassAt(nodes, i, parent_path) ==
    IF _extract_class_info(nodes, i, parent_path).found
    THEN <<_extract_class_info(nodes, i, parent_path)>>
    ELSE <<>>

RECURSIVE ClassesOf(_, _, _)
ClassesOf(nodes, cs, parent_path) ==
    IF cs = <<>> THEN <<>>
    ELSE ClassAt(nodes, Head(cs), parent_path)
             \o ClassesOf(nodes, Tail(cs), parent_path)

\* PythonParser.extract_classes: the class definitions among tree.children
extract_classes(nodes, i, parent_path) ==
    ClassesOf(nodes, ChildrenOfType(nodes, i, {"class_definition"}), parent_path)

ImportInfo(module, names, is_from) ==
    [module |-> module, names |-> names, is_from |-> is_from]

\* the first name of an aliased_import, the one before "as"
AliasedName(nodes, i) ==
    LET named == SelectSeq(ChildrenOfType(nodes, i, {"dotted_name", "identifier"}),
                           LAMBDA c : nodes[c].text \notin {"", "as"})
    IN  IF named = <<>> THEN <<>> ELSE <<nodes[Head(named)].text>>

\* one pass of the loop over the children of an import_from_statement
ImportFromStep(nodes, child, st) ==
    IF nodes[child].type = "dotted_name" /\ ~st.found_import_keyword
    THEN [st EXCEPT !.module_name = nodes[child].text]
    ELSE IF nodes[child].type = "relative_import"
    THEN [st EXCEPT !.module_name = nodes[child].text]
    ELSE IF nodes[child].type = "import"
    THEN [st EXCEPT !.found_import_keyword = TRUE]
    ELSE IF ~st.found_import_keyword
    THEN st
    ELSE IF nodes[child].type \in {"dotted_name", "identifier"}
    THEN IF nodes[child].text \notin {"", "import", "from", ",", "(", ")"}
         THEN [st EXCEPT !.imported_names = Append(@, nodes[child].text)]
         ELSE st
    ELSE IF nodes[child].type = "aliased_import"
    THEN [st EXCEPT !.imported_names = @ \o AliasedName(nodes, child)]
    ELSE st

RECURSIVE ImportFromScan(_, _, _)
ImportFromScan(nodes, cs, st) ==
    IF cs = <<>> THEN st
    ELSE ImportFromScan(nodes, Tail(cs), ImportFromStep(nodes, Head(cs), st))

RECURSIVE PlainImports(_, _)
\* import module1, module2: one ImportInfo per dotted_name
PlainImports(nodes, cs) ==
    IF cs = <<>> THEN <<>>
    ELSE <<ImportInfo(nodes[Head(cs)].text, <<nodes[Head(cs)].text>>, FALSE)>>
             \o PlainImports(nodes, Tail(cs))

\* the ImportInfo objects that child i of the root adds to the list
ImportsAt(nodes, i) ==
    IF nodes[i].type = "import_statement"
    THEN PlainImports(nodes, ChildrenOfType(nodes, i, {"dotted_name"}))
    ELSE IF nodes[i].type = "import_from_statement"
    THEN LET st == ImportFromScan(nodes, nodes[i].children,
                                  [module_name |-> "", imported_names |-> <<>>,
                                   found_import_keyword |-> FALSE])
         IN  IF st.module_name # ""
             THEN <<ImportInfo(st.module_name, st.imported_names, TRUE)>>
             ELSE <<>>
    ELSE <<>>

RECURSIVE ImportsOf(_, _)
ImportsOf(nodes, cs) ==
    IF cs = <<>> THEN <<>>
    ELSE ImportsAt(nodes, Head(cs)) \o ImportsOf(nodes, Tail(cs))

\* PythonParser.extract_imports
extract_imports(nodes, i) == ImportsOf(nodes, nodes[i].children)

(***************************************************************************)
(* models/edges/base_edge.py: BaseEdge.  The model keeps the three         *)
(* declared fields; pydantic ignores any other keyword.                    *)
(***************************************************************************)
BaseEdge(type, confidence, metadata) ==
    [type |-> type, confidence |-> confidence, metadata |-> metadata]

RECURSIVE ImportEdges(_, _, _)
ImportEdges(nodes, cs, file_id) ==
    IF cs = <<>> THEN <<>>
    ELSE <<BaseEdge("IMPORTS", One,
                    [source_id |-> file_id,
                     target_id |-> <<"module_", nodes[Head(cs)].text>>])>>
             \o ImportEdges(nodes, Tail(cs), file_id)

RECURSIVE BaseEdgesOf(_, _)
BaseEdgesOf(name, bases) ==
    IF bases = <<>> THEN <<>>
    ELSE <<BaseEdge("INHERITS", One,
                    [source_id |-> <<name>>, target_id |-> <<Head(bases)>>])>>
             \o BaseEdgesOf(name, Tail(bases))

RECURSIVE InheritEdges(_)
InheritEdges(classes) ==
    IF classes = <<>> THEN <<>>
    ELSE BaseEdgesOf(Head(classes).name, Head(classes).base_classes)
             \o InheritEdges(Tail(classes))

\* PythonParser._extract_edges: IMPORTS edges, no CALLS edges, INHERITS edges
_extract_edges(nodes, i, file_id, functions, classes) ==
    ImportEdges(nodes,
                ChildrenOfType(nodes, i,
                               {"import_statement", "import_from_statement"}),
                file_id)
        \o InheritEdges(classes)

\* a slip: the id is derived from the path
parse_file_id_of_path(file_path, content) ==
    LET diag == handle_parse_errors(content)
        content_hash == Sha256(content.text)
        file_node == FileNode([id |-> Prefix16(Sha256(file_path)),
                               path |-> file_path, language |-> "python",
                               content_hash |-> content_hash,
                               size_bytes |-> content.size_bytes,
                               parse_status |-> diag.status,
                               error_count |-> diag.error_count])
        imports == extract_imports(content.nodes, 1)
        classes == extract_classes(content.nodes, 1, <<>>)
        functions == extract_functions(content.nodes, 1, <<>>)
        edges == _extract_edges(content.nodes, 1, file_node.id, functions,
                                classes)
    IN  IF file_node.exc # ""
        THEN [exc |-> file_node.exc, file_node |-> file_node,
              classes |-> <<>>, functions |-> <<>>, imports |-> <<>>,
              edges |-> <<>>, success |-> FALSE]
        ELSE [exc |-> "", file_node |-> file_node, classes |-> classes,
              functions |-> functions, imports |-> imports, edges |-> edges,
              success |-> (diag.status # "failed")]

\* PythonParser.parse_file once the content is at hand (lines 69-109); the
\* timestamp is left out
parse_file(file_path, content) ==
    LET diag == handle_parse_errors(content)
        content_hash == Sha256(content.text)
        file_node == FileNode([id |-> Prefix16(content_hash),
                               path |-> file_path, language |-> "python",
                               content_hash |-> content_hash,
                               size_bytes |-> content.size_bytes,
                               parse_status |-> diag.status,
                               error_count |-> diag.error_count])
        imports == extract_imports(content.nodes, 1)
        classes == extract_classes(content.nodes, 1, <<>>)
        functions == extract_functions(content.nodes, 1, <<>>)
        edges == _extract_edges(content.nodes, 1, file_node.id, functions,
                                classes)
    IN  IF file_node.exc # ""
        THEN [exc |-> file_node.exc, file_node |-> file_node,
              classes |-> <<>>, functions |-> <<>>, imports |-> <<>>,
              edges |-> <<>>, success |-> FALSE]
        ELSE [exc |-> "", file_node |-> file_node, classes |-> classes,
              functions |-> functions, imports |-> imports, edges |-> edges,
              success |-> (diag.status # "failed")]

(***************************************************************************)
(* Contents: a few source files, and every small tree                      *)
(***************************************************************************)
Content(text, size_bytes, nodes, has_error) ==
    [text |-> text, size_bytes |-> size_bytes, nodes |-> nodes,
     has_error |-> has_error]

\* an empty file
EmptyContent == Content("", 0, <<Node("module", "", FALSE, <<>>)>>, FALSE)

\* def main(): ...
MainContent ==
    Content("def main", 8,
            <<Node("module", "", FALSE, <<2>>),
              Node("function_definition", "", FALSE, <<3>>),
              Node("identifier", "main", FALSE, <<>>)>>,
            FALSE)

\* import os / class User(Base): def save / def helper
ServiceContent ==
    Content("import os; class User(Base): def save; def helper", 49,
            <<Node("module", "", FALSE, <<2, 3, 8>>),
              Node("import_statement", "import os", FALSE, <<12, 13>>),
              Node("class_definition", "", FALSE, <<4, 5, 7>>),
              Node("identifier", "User", FALSE, <<>>),
              Node("argument_list", "", FALSE, <<6>>),
              Node("identifier", "Base", FALSE, <<>>),
              Node("block", "", FALSE, <<9>>),
              Node("function_definition", "", FALSE, <<10>>),
              Node("function_definition", "", FALSE, <<11>>),
              Node("identifier", "helper", FALSE, <<>>),
              Node("identifier", "save", FALSE, <<>>),
              Node("import", "import", FALSE, <<>>),
              Node("dotted_name", "os", FALSE, <<>>)>>,
            FALSE)

\* def valid_func(): ... / def broken_func(   (unclosed)
BrokenContent ==
    Content("def valid_func; def broken_func(", 32,
            <<Node("module", "", FALSE, <<2, 4>>),
              Node("function_definition", "", FALSE, <<3>>),
              Node("identifier", "valid_func", FALSE, <<>>),
              Node("ERROR", "", FALSE, <<5>>),
              Node("identifier", "broken_func", FALSE, <<>>)>>,
            TRUE)

\* from src.validation import validate_email / def register_user(): ...
RegistrationContent ==
    Content("from src.validation import validate_email; def register_user", 61,
            <<Node("module", "", FALSE, <<2, 3>>),
              Node("import_from_statement",
                   "from src.validation import validate_email", FALSE,
                   <<5, 6, 7, 8>>),
              Node("function_definition", "", FALSE, <<4>>),
              Node("identifier", "register_user", FALSE, <<>>),
              Node("from", "from", FALSE, <<>>),
              Node("dotted_name", "src.validation", FALSE, <<>>),
              Node("import", "import", FALSE, <<>>),
              Node("dotted_name", "validate_email", FALSE, <<>>)>>,
            FALSE)

\* import re / def validate_email(): ...
ValidationContent ==
    Content("import re; def validate_email", 29,
            <<Node("module", "", FALSE, <<2, 3>>),
              Node("import_statement", "import re", FALSE, <<5, 6>>),
              Node("function_definition", "", FALSE, <<4>>),
              Node("identifier", "validate_email", FALSE, <<>>),
              Node("import", "import", FALSE, <<>>),
              Node("dotted_name", "re", FALSE, <<>>)>>,
            FALSE)

\* import os, sys / from . import util as u / class Derived(models.Base): pass
PackageContent ==
    Content("import os, sys; from . import util as u; class Derived(models.Base)",
            67,
            <<Node("module", "", FALSE, <<2, 3, 4>>),
              Node("import_statement", "import os, sys", FALSE,
                   <<5, 6, 7, 8>>),
              Node("import_from_statement", "from . import util as u", FALSE,
                   <<9, 10, 11, 12>>),
              Node("class_definition", "", FALSE, <<16, 17, 21>>),
              Node("import", "import", FALSE, <<>>),
              Node("dotted_name", "os", FALSE, <<>>),
              Node(",", ",", FALSE, <<>>),
              Node("dotted_name", "sys", FALSE, <<>>),
              Node("from", "from", FALSE, <<>>),
              Node("relative_import", ".", FALSE, <<>>),
              Node("import", "import", FALSE, <<>>),
              Node("aliased_import", "util as u", FALSE, <<13, 14, 15>>),
              Node("dotted_name", "util", FALSE, <<>>),
              Node("as", "as", FALSE, <<>>),
              Node("identifier", "u", FALSE, <<>>),
              Node("identifier", "Derived", FALSE, <<>>),
              Node("argument_list", "", FALSE, <<18>>),
              Node("attribute", "models.Base", FALSE, <<19, 20>>),
              Node("identifier", "models", FALSE, <<>>),
              Node("identifier", "Base", FALSE, <<>>),
              Node("block", "", FALSE, <<>>)>>,
            FALSE)

SourceContents ==
    {EmptyContent, MainContent, ServiceContent, BrokenContent, PackageContent,
     RegistrationContent}

MaxTreeNodes == 3

\* a node is sound, an ERROR node, or a missing node
NodeKinds == {"ok", "error", "missing"}

\* parent maps of the trees with n nodes: the parent of node i precedes i
ParentMaps(n) == {p \in [2 .. n -> 1 .. n] : \A i \in 2 .. n : p[i] < i}

RECURSIVE Ascending(_)
\* the elements of a set of numbers in ascending order
Ascending(S) ==
    IF S = {} THEN <<>>
    ELSE LET m == CHOOSE x \in S : \A y \in S : x <= y
         IN  <<m>> \o Ascending(S \ {m})

TreeNodes(n, p, kind) ==
    [k \in 1 .. n |->
        Node(IF kind[k] = "error" THEN "ERROR"
             ELSE IF k = 1 THEN "module" ELSE "identifier",
             "", kind[k] = "missing",
             Ascending({i \in 2 .. n : p[i] = k}))]

\* every tree of at most MaxTreeNodes nodes, with either value of the
\* root's has_error flag
TreeContents ==
    UNION {{Content(ToString(<<TreeNodes(n, p, kind), he>>), n - 1,
                    TreeNodes(n, p, kind), he) :
                  p \in ParentMaps(n), kind \in [1 .. n -> NodeKinds],
                  he \in BOOLEAN} :
           n \in 1 .. MaxTreeNodes}

(***************************************************************************)
(* indexer/parsers/typescript_parser.py: the methods of a class body and   *)
(* their decorators.  Functions declared outside a class get no decorators *)
(* (decorators=[]) and are left out.                                       *)
(***************************************************************************)
RECURSIVE DecoratorNameFrom(_, _)
\* the loop of _extract_decorator_name over the children of the decorator;
\* "" stands for None
DecoratorNameFrom(nodes, cs) ==
    IF cs = <<>> THEN ""
    ELSE IF /\ nodes[Head(cs)].type = "call_expression"
            /\ ChildrenOfType(nodes, Head(cs), {"identifier"}) # <<>>
    THEN nodes[Head(ChildrenOfType(nodes, Head(cs), {"identifier"}))].text
    ELSE IF nodes[Head(cs)].type = "identifier"
    THEN nodes[Head(cs)].text
    ELSE DecoratorNameFrom(nodes, Tail(cs))

\* TypeScriptParser._extract_decorator_name
_extract_decorator_name(nodes, decorator_node) ==
    DecoratorNameFrom(nodes, nodes[decorator_node].children)

\* the siblings node.prev_sibling walks through, in source order
PrevSiblings(nodes, i) ==
    IF \E p \in 1 .. Len(nodes) :
           \E k \in 1 .. Len(nodes[p].children) : nodes[p].children[k] = i
    THEN LET p == CHOOSE p \in 1 .. Len(nodes) :
                      \E k \in 1 .. Len(nodes[p].children) :
                          nodes[p].children[k] = i
             k == CHOOSE k \in 1 .. Len(nodes[p].children) :
                      nodes[p].children[k] = i
         IN  SubSeq(nodes[p].children, 1, k - 1)
    ELSE <<>>

RECURSIVE ScanBackAll(_, _, _)
\* the while loop of _extract_method_info (lines 399-405): current runs
\* backward over every previous sibling
ScanBackAll(nodes, sibs, decorators) ==
    IF sibs = <<>> THEN decorators
    ELSE ScanBackAll(nodes, SubSeq(sibs, 1, Len(sibs) - 1),
                     IF /\ nodes[sibs[Len(sibs)]].type = "decorator"
                        /\ _extract_decorator_name(nodes, sibs[Len(sibs)]) # ""
                     THEN <<_extract_decorator_name(nodes, sibs[Len(sibs)])>>
                              \o decorators
                     ELSE decorators)

NoMethod == [found |-> FALSE, name |-> "", qualified_name |-> <<>>,
             decorators |-> <<>>]

\* TypeScriptParser._extract_method_info: name, qualified name, decorators
_extract_method_info(nodes, i, parent_path) ==
    LET ids == ChildrenOfType(nodes, i, {"property_identifier"})
        func_name == IF ids = <<>> THEN "" ELSE nodes[Head(ids)].text
    IN  IF func_name = ""
        THEN NoMethod
        ELSE [found |-> TRUE, name |-> func_name,
              qualified_name |-> parent_path \o <<func_name>>,
              decorators |-> ScanBackAll(nodes, PrevSiblings(nodes, i), <<>>)]

\* the method of node i as a list: empty unless i is a method_definition
\* with a name
MethodAt(nodes, i, parent_path) ==
    IF nodes[i].type = "method_definition"
           /\ _extract_method_info(nodes, i, parent_path).found
    THEN <<_extract_method_info(nodes, i, parent_path)>>
    ELSE <<>>

RECURSIVE MethodsOf(_, _, _)
\* the method_definition branch of TypeScriptParser.extract_functions
MethodsOf(nodes, walk, parent_path) ==
    IF walk = <<>> THEN <<>>
    ELSE MethodAt(nodes, Head(walk), parent_path)
             \o MethodsOf(nodes, Tail(walk), parent_path)

\* class UserService { @Get('/users') getUsers() {}
\*                     @Post('/users') @ValidateBody() createUser(user) {} }
UserServiceContent ==
    Content("class UserService { @Get getUsers; @Post @ValidateBody createUser }",
            71,
            <<Node("program", "", FALSE, <<2>>),
              Node("class_declaration", "", FALSE, <<3, 4>>),
              Node("type_identifier", "UserService", FALSE, <<>>),
              Node("class_body", "", FALSE, <<5, 6, 7, 8, 9>>),
              Node("decorator", "@Get('/users')", FALSE, <<10>>),
              Node("method_definition", "", FALSE, <<11>>),
              Node("decorator", "@Post('/users')", FALSE, <<12>>),
              Node("decorator", "@ValidateBody()", FALSE, <<13>>),
              Node("method_definition", "", FALSE, <<14>>),
              Node("call_expression", "Get('/users')", FALSE, <<15>>),
              Node("property_identifier", "getUsers", FALSE, <<>>),
              Node("call_expression", "Post('/users')", FALSE, <<16>>),
              Node("call_expression", "ValidateBody()", FALSE, <<17>>),
              Node("property_identifier", "createUser", FALSE, <<>>),
              Node("identifier", "Get", FALSE, <<>>),
              Node("identifier", "Post", FALSE, <<>>),
              Node("identifier", "ValidateBody", FALSE, <<>>)>>,
            FALSE)

\* class Task { @Log run() {} stop() {} }
TaskContent ==
    Content("class Task { @Log run; stop }", 29,
            <<Node("program", "", FALSE, <<2>>),
              Node("class_declaration", "", FALSE, <<3, 4>>),
              Node("type_identifier", "Task", FALSE, <<>>),
              Node("class_body", "", FALSE, <<5, 6, 7>>),
              Node("decorator", "@Log", FALSE, <<8>>),
              Node("method_definition", "", FALSE, <<9>>),
              Node("method_definition", "", FALSE, <<10>>),
              Node("identifier", "Log", FALSE, <<>>),
              Node("property_identifier", "run", FALSE, <<>>),
              Node("property_identifier", "stop", FALSE, <<>>)>>,
            FALSE)

\* class Plain { only() {} }  and  class Tagged { @Log only() {} }
PlainContent ==
    Content("class Plain { only }", 20,
            <<Node("program", "", FALSE, <<2>>),
              Node("class_declaration", "", FALSE, <<3, 4>>),
              Node("type_identifier", "Plain", FALSE, <<>>),
              Node("class_body", "", FALSE, <<5>>),
              Node("method_definition", "", FALSE, <<6>>),
              Node("property_identifier", "only", FALSE, <<>>)>>,
            FALSE)

TypeScriptContents == {UserServiceContent, TaskContent, PlainContent}

NoMethodsCall == [called |-> FALSE, content |-> EmptyContent, result |-> <<>>]

NoParseCall ==
    [called |-> FALSE, content |-> EmptyContent,
     result |-> [exc |-> "", file_node |-> NoFileNode, classes |-> <<>>,
                 functions |-> <<>>, imports |-> <<>>, edges |-> <<>>,
                 success |-> FALSE]]

NoFileNodeCall ==
    [called |-> FALSE,
     args |-> [id |-> <<>>, path |-> "", language |-> "",
               content_hash |-> Sha256(""), size_bytes |-> 0,
               parse_status |-> "", error_count |-> 0],
     result |-> NoFileNode]

ParseIdle ==
    /\ parse_call = NoParseCall
    /\ reparse_calls = <<>>
    /\ fn_call = NoFileNodeCall
    /\ methods_call = NoMethodsCall

\* PythonParser().parse_file("a.py", content)
ParseFile(content) ==
    /\ ~parse_call.called
    /\ ~fn_call.called
    /\ parse_call' = [called |-> TRUE, content |-> content,
                      result |-> parse_file("a.py", content)]
    /\ UNCHANGED <<confVars, reparse_calls, fn_call, methods_call, scorerVars,
                   queryVars, storeVars, distVars, indexVars>>

MaxReparses == 2

\* PythonParser().parse_file(file_path, content) once more, the content being
\* the one parsed before
Reparse(file_path) ==
    /\ parse_call.called
    /\ Len(reparse_calls) < MaxReparses
    /\ reparse_calls' =
           Append(reparse_calls,
                  [path |-> file_path,
                   result |-> parse_file(file_path, parse_call.content)])
    /\ UNCHANGED <<confVars, parse_call, fn_call, methods_call, scorerVars,
                   queryVars, storeVars, distVars, indexVars>>

ParseStatuses == {"success", "partial", "failed"}
MaxErrorCount == 2

\* the arguments tried for FileNode(...)
FileNodeArgs ==
    {[id |-> Prefix16(Sha256("")), path |-> "a.py", language |-> lang,
      content_hash |-> h, size_bytes |-> sz, parse_status |-> st,
      error_count |-> ec] :
        lang \in {"python", "Python", "ruby"},
        h \in {Sha256(""), [Sha256("") EXCEPT !.len = 63],
               [Sha256("") EXCEPT !.hex = FALSE]},
        sz \in {-1, 0, 7},
        st \in ParseStatuses,
        ec \in -1 .. MaxErrorCount}

\* FileNode(**args)
NewFileNode(args) ==
    /\ ~parse_call.called
    /\ ~fn_call.called
    /\ fn_call' = [called |-> TRUE, args |-> args, result |-> FileNode(args)]
    /\ UNCHANGED <<confVars, parse_call, reparse_calls, methods_call,
                   scorerVars, queryVars, storeVars, distVars, indexVars>>

\* TypeScriptParser().extract_functions(root_node, "") on a class file
ExtractMethods(content) ==
    /\ ~methods_call.called
    /\ methods_call' =
           [called |-> TRUE, content |-> content,
            result |-> MethodsOf(content.nodes, _walk_tree(content.nodes, 1),
                                 <<>>)]
    /\ UNCHANGED <<confVars, parse_call, reparse_calls, fn_call, scorerVars,
                   queryVars, storeVars, distVars, indexVars>>

ParseNext ==
    \/ \E content \in TypeScriptContents : ExtractMethods(content)
    \/ \E content \in TreeContents \cup SourceContents : ParseFile(content)
    \/ \E file_path \in {"a.py", "lib/a.py", "b.py"} : Reparse(file_path)
    \/ \E args \in FileNodeArgs : NewFileNode(args)

(***************************************************************************)
(* storage/graph_store.py: GraphStore.  A dict is the list of its          *)
(* <<key, value>> items in insertion order, as Python iterates it.         *)
(***************************************************************************)
EmptyDict == <<>>

\* the keys of a dict
DictKeys(d) == {d[i][1] : i \in 1 .. Len(d)}

\* d[key] = value: a key already present keeps its place
DictSet(d, key, value) ==
    IF key \in DictKeys(d)
    THEN [i \in 1 .. Len(d) |-> IF d[i][1] = key THEN <<key, value>> ELSE d[i]]
    ELSE Append(d, <<key, value>>)

\* GraphStore.add_file
add_file(files, file_node) == DictSet(files, file_node.id, file_node)

\* GraphStore.add_function
add_function(functions, function_node) ==
    DictSet(functions, function_node.id, function_node)

\* a slip: the new edge goes to the front
add_edge_front(edges, edge) == <<edge>> \o edges

\* GraphStore.add_edge
add_edge(edges, edge) == Append(edges, edge)

\* GraphStore.clear: the three containers afterwards
clear(files, functions, edges) ==
    [files |-> EmptyDict, functions |-> EmptyDict, edges |-> <<>>]

\* GraphStore.__init__
StoreIdle ==
    /\ store_files = EmptyDict
    /\ store_functions = EmptyDict
    /\ store_edges = <<>>

\* the nodes and edges a client hands to the store: what the parser makes of
\* two sources under two paths
StoreFileNodes ==
    {parse_file(file_path, content).file_node :
        file_path \in {"src/registration.py", "src/validation.py"},
        content \in {EmptyContent, MainContent}}

StoreFunctions ==
    {parse_file("src/models.py", ServiceContent).functions[i] : i \in 1 .. 2}

StoreEdges ==
    {parse_file("src/models.py", ServiceContent).edges[i] : i \in 1 .. 2}

(***************************************************************************)
(* retrieval/graph_distance.py: GraphDistanceCalculator                    *)
(***************************************************************************)
\* whether edge.<name> resolves: a BaseEdge has the attributes type,
\* confidence and metadata, and any other raises AttributeError
HasAttr(edge, name) == name \in DOMAIN edge

\* the targets of the edges leaving n, in list order (lines 31-35)
RECURSIVE TargetsOf(_, _)
TargetsOf(edges, n) ==
    IF edges = <<>> THEN <<>>
    ELSE (IF Head(edges).source_id = n THEN <<Head(edges).target_id>> ELSE <<>>)
             \o TargetsOf(Tail(edges), n)

\* adjacency: dict[str, list[str]]
Adjacency(edges) ==
    [n \in {edges[i].source_id : i \in 1 .. Len(edges)} |-> TargetsOf(edges, n)]

RECURSIVE VisitNeighborsUnmarked(_, _, _, _)
\* a slip: a neighbour is enqueued whether visited or not
VisitNeighborsUnmarked(nbrs, queue, visited, distance) ==
    IF nbrs = <<>> THEN [queue |-> queue, visited |-> visited]
    ELSE VisitNeighborsUnmarked(Tail(nbrs),
                                Append(queue, <<Head(nbrs), distance + 1>>),
                                visited \cup {Head(nbrs)}, distance)

\* the for loop over the neighbours of a dequeued node (lines 47-50)
RECURSIVE VisitNeighbors(_, _, _, _)
VisitNeighbors(nbrs, queue, visited, distance) ==
    IF nbrs = <<>> THEN [queue |-> queue, visited |-> visited]
    ELSE IF Head(nbrs) \notin visited
    THEN VisitNeighbors(Tail(nbrs), Append(queue, <<Head(nbrs), distance + 1>>),
                        visited \cup {Head(nbrs)}, distance)
    ELSE VisitNeighbors(Tail(nbrs), queue, visited, distance)

Distance(hops) == [exc |-> "", inf |-> FALSE, hops |-> hops]
Infinity == [exc |-> "", inf |-> TRUE, hops |-> 0]

\* the while loop (lines 41-52)
RECURSIVE Bfs(_, _, _, _)
Bfs(adjacency, queue, visited, target_id) ==
    IF queue = <<>> THEN Infinity
    ELSE LET node_id == Head(queue)[1]
             distance == Head(queue)[2]
         IN  IF node_id = target_id THEN Distance(distance)
             ELSE LET nbrs == IF node_id \in DOMAIN adjacency
                              THEN adjacency[node_id] ELSE <<>>
                      next == VisitNeighbors(nbrs, Tail(queue), visited, distance)
                  IN  Bfs(adjacency, next.queue, next.visited, target_id)

\* GraphDistanceCalculator.calculate_distance
calculate_distance(source_id, target_id, edges) ==
    IF source_id = target_id THEN Distance(0)
    ELSE IF \E i \in 1 .. Len(edges) :
               ~HasAttr(edges[i], "source_id") \/ ~HasAttr(edges[i], "target_id")
    THEN [exc |-> "AttributeError", inf |-> FALSE, hops |-> 0]
    ELSE Bfs(Adjacency(edges), <<<<source_id, 0>>>>, {source_id}, target_id)

MaxEdges == 3

NodeIds == {<<"A">>, <<"B">>, <<"C">>}

\* the edges a client stores: built as the parsers build them, the two ids
\* inside metadata
ClientEdges ==
    {BaseEdge("CALLS", One, [source_id |-> a, target_id |-> b]) :
        a \in NodeIds, b \in NodeIds}

NoDistCall ==
    [called |-> FALSE, source_id |-> <<>>, target_id |-> <<>>,
     result |-> Infinity]

\* objects that have the attributes calculate_distance reads: the two ids
\* next to the fields of a BaseEdge
LinkedEdges ==
    {[type |-> "CALLS", confidence |-> One,
      metadata |-> [source_id |-> a, target_id |-> b],
      source_id |-> a, target_id |-> b] : a \in NodeIds, b \in NodeIds}

\* queue holds every pair appended so far and head counts the poplefts: the
\* deque is what lies after position head
NoBfsCall ==
    [pc |-> "idle", source_id |-> <<>>, target_id |-> <<>>,
     adjacency |-> <<>>, queue |-> <<>>, head |-> 0, visited |-> {},
     result |-> Infinity]

DistIdle == dist_call = NoDistCall /\ bfs_call = NoBfsCall

\* store.add_edge(edge)
AddEdge(edge) ==
    /\ ~dist_call.called
    /\ bfs_call.pc = "idle"
    /\ Len(store_edges) < MaxEdges
    /\ store_edges' = add_edge(store_edges, edge)
    /\ UNCHANGED <<confVars, store_files, store_functions, distVars,
                   scorerVars, parseVars, queryVars, indexVars>>

\* calculator.calculate_distance(s, t, store.get_all_edges())
CalculateDistance(s, t) ==
    /\ ~dist_call.called
    /\ dist_call' = [called |-> TRUE, source_id |-> s, target_id |-> t,
                     result |-> calculate_distance(s, t, store_edges)]
    /\ UNCHANGED <<confVars, bfs_call, storeVars, scorerVars, parseVars,
                   queryVars, indexVars>>

\* store.add_file(file_node)
AddFile(file_node) ==
    /\ store_files' = add_file(store_files, file_node)
    /\ UNCHANGED <<confVars, store_functions, store_edges, distVars,
                   scorerVars, parseVars, queryVars, indexVars>>

\* store.add_function(function_node)
AddFunction(function_node) ==
    /\ store_functions' = add_function(store_functions, function_node)
    /\ UNCHANGED <<confVars, store_files, store_edges, distVars, scorerVars,
                   parseVars, queryVars, indexVars>>

\* store.clear()
Clear ==
    /\ store_files' = clear(store_files, store_functions, store_edges).files
    /\ store_functions' =
           clear(store_files, store_functions, store_edges).functions
    /\ store_edges' = clear(store_files, store_functions, store_edges).edges
    /\ UNCHANGED <<confVars, distVars, scorerVars, parseVars, queryVars,
                   indexVars>>

StoreNext ==
    \/ \E file_node \in StoreFileNodes : AddFile(file_node)
    \/ \E function_node \in StoreFunctions : AddFunction(function_node)
    \/ \E edge \in StoreEdges : AddEdge(edge)
    \/ Clear

MaxQueue == 6

\* calculate_distance(s, t, store.get_all_edges()) up to the while loop
\* (lines 27-39)
BfsStart(s, t) ==
    /\ bfs_call.pc = "idle"
    /\ ~dist_call.called
    /\ bfs_call' =
           IF s = t
           THEN [NoBfsCall EXCEPT !.pc = "done", !.source_id = s,
                                  !.target_id = t, !.result = Distance(0)]
           ELSE IF \E i \in 1 .. Len(store_edges) :
                      \/ ~HasAttr(store_edges[i], "source_id")
                      \/ ~HasAttr(store_edges[i], "target_id")
           THEN [NoBfsCall EXCEPT
                    !.pc = "done", !.source_id = s, !.target_id = t,
                    !.result = [exc |-> "AttributeError", inf |-> FALSE,
                                hops |-> 0]]
           ELSE [NoBfsCall EXCEPT
                    !.pc = "running", !.source_id = s, !.target_id = t,
                    !.adjacency = Adjacency(store_edges),
                    !.queue = <<<<s, 0>>>>, !.visited = {s}]
    /\ UNCHANGED <<confVars, dist_call, storeVars, scorerVars, parseVars,
                   queryVars, indexVars>>

\* one pass of the while loop (lines 41-50), or the return after it (line 52)
BfsStep ==
    /\ bfs_call.pc = "running"
    /\ Len(bfs_call.queue) <= MaxQueue
    /\ bfs_call' =
           IF bfs_call.head = Len(bfs_call.queue)
           THEN [bfs_call EXCEPT !.pc = "done", !.result = Infinity]
           ELSE LET node_id == bfs_call.queue[bfs_call.head + 1][1]
                    distance == bfs_call.queue[bfs_call.head + 1][2]
                    nbrs == IF node_id \in DOMAIN bfs_call.adjacency
                            THEN bfs_call.adjacency[node_id] ELSE <<>>
                    next == VisitNeighbors(nbrs, bfs_call.queue,
                                           bfs_call.visited, distance)
                IN  IF node_id = bfs_call.target_id
                    THEN [bfs_call EXCEPT !.pc = "done",
                                          !.head = @ + 1,
                                          !.result = Distance(distance)]
                    ELSE [bfs_call EXCEPT !.head = @ + 1,
                                          !.queue = next.queue,
                                          !.visited = next.visited]
    /\ UNCHANGED <<confVars, dist_call, storeVars, scorerVars, parseVars,
                   queryVars, indexVars>>

BfsNext ==
    \/ \E edge \in LinkedEdges : AddEdge(edge)
    \/ \E s \in NodeIds, t \in NodeIds : BfsStart(s, t)
    \/ BfsStep

DistNext ==
    \/ \E edge \in ClientEdges : AddEdge(edge)
    \/ \E s \in NodeIds, t \in NodeIds : CalculateDistance(s, t)

(***************************************************************************)
(* The repository on disk.  An entry is absent, a regular file with a      *)
(* content, a file whose bytes are not UTF-8 ("undecodable"), or a symlink *)
(* to nothing ("dangling": rglob yields it and Path.exists() is false).    *)
(***************************************************************************)
Paths == {"src/registration.py", "src/validation.py", "src/models.py"}

\* what else a repository may hold: a TypeScript module and a text file
OtherPaths == {"src/app.ts", "README.md"}
RepoPaths == Paths \cup OtherPaths

\* the characters of the paths files are stored under
PathChars(path) ==
    CASE path = "src/registration.py" ->
             <<"s", "r", "c", "/", "r", "e", "g", "i", "s", "t", "r", "a",
             "t", "i", "o", "n", ".", "p", "y">>
      [] path = "src/validation.py" ->
             <<"s", "r", "c", "/", "v", "a", "l", "i", "d", "a", "t", "i",
             "o", "n", ".", "p", "y">>
      [] path = "src/models.py" ->
             <<"s", "r", "c", "/", "m", "o", "d", "e", "l", "s", ".", "p",
             "y">>
      [] path = "src/auth.py" ->
             <<"s", "r", "c", "/", "a", "u", "t", "h", ".", "p", "y">>
      [] path = "src/app.ts" ->
             <<"s", "r", "c", "/", "a", "p", "p", ".", "t", "s">>
      [] path = "README.md" ->
             <<"R", "E", "A", "D", "M", "E", ".", "m", "d">>

Entry(kind, content) == [kind |-> kind, content |-> content]
Absent == Entry("absent", EmptyContent)
Dangling == Entry("dangling", EmptyContent)
Undecodable == Entry("undecodable", EmptyContent)

\* the contents the indexed repositories are made of
RepoContents == {EmptyContent, ServiceContent, BrokenContent}

Entries == {Absent, Dangling, Undecodable} \cup {Entry("file", c) : c \in RepoContents}

\* export const app = 1
AppContent ==
    Content("export const app = 1", 20,
            <<Node("program", "", FALSE, <<>>)>>, FALSE)

\* the name ends with ".py"
MatchesPy(path) ==
    LET name == PathChars(path)
    IN  /\ Len(name) >= 3
        /\ SubSeq(name, Len(name) - 2, Len(name)) = <<".", "p", "y">>

\* repo_root.rglob("*.py")
rglob(fsys) == {p \in DOMAIN fsys : MatchesPy(p) /\ fsys[p].kind # "absent"}

(***************************************************************************)
(* indexer/graph_builder.py: GraphBuilder                                  *)
(***************************************************************************)
RegisteredLanguages == {"python", "typescript", "javascript", "go"}

BuildRaised(exc, message) ==
    [exc |-> exc, message |-> message, file_node |-> NoFileNode,
     functions |-> <<>>, classes |-> <<>>, success |-> FALSE]

\* GraphBuilder.build_from_file: a BuildResult (which has no edges field),
\* or the exception raised, with str(e) as message
build_from_file(fsys, file_path, language) ==
    IF fsys[file_path].kind \in {"absent", "dangling"}
    THEN BuildRaised("FileNotFoundError", <<"File not found: ", file_path>>)
    ELSE IF Lower(language) \notin RegisteredLanguages
    THEN BuildRaised("ValueError", <<"Unsupported language: ", language>>)
    ELSE IF fsys[file_path].kind = "undecodable"
    THEN BuildRaised("UnicodeDecodeError",
                     <<"'utf-8' codec can't decode byte">>)
    ELSE LET result == parse_file(file_path, fsys[file_path].content)
         IN  IF result.exc # ""
             THEN BuildRaised(result.exc, <<"validation error for FileNode">>)
             ELSE [exc |-> "", message |-> <<>>,
                   file_node |-> result.file_node,
                   functions |-> result.functions,
                   classes |-> result.classes, success |-> result.success]

(***************************************************************************)
(* indexer/main.py: Indexer                                                *)
(***************************************************************************)
\* f"{py_file}: {e}"
ErrorEntry(py_file, message) == <<py_file, ": ">> \o message

LoopState(files, indexed, found, errs, raised) ==
    [store_files |-> files, files_indexed |-> indexed,
     functions_found |-> found, errors |-> errs, raised |-> raised]

\* a slip: no try/except around the body, the exception leaves the loop
index_step_no_catch(st, fsys, py_file) ==
    LET result == build_from_file(fsys, py_file, "python")
    IN  IF result.exc = ""
        THEN LoopState(add_file(st.store_files, result.file_node),
                       st.files_indexed + 1,
                       st.functions_found + Len(result.functions),
                       st.errors, FALSE)
        ELSE [st EXCEPT !.raised = TRUE]

\* a slip: the file is counted before it is built
index_step_count_first(st, fsys, py_file) ==
    LET result == build_from_file(fsys, py_file, "python")
    IN  IF result.exc = ""
        THEN LoopState(add_file(st.store_files, result.file_node),
                       st.files_indexed + 1,
                       st.functions_found + Len(result.functions),
                       st.errors, FALSE)
        ELSE LoopState(st.store_files, st.files_indexed + 1,
                       st.functions_found,
                       Append(st.errors, ErrorEntry(py_file, result.message)),
                       FALSE)

\* one pass of the for loop of Indexer.index_repository (lines 41-48);
\* raised = TRUE would mean an exception escaped the loop
index_step(st, fsys, py_file) ==
    LET result == build_from_file(fsys, py_file, "python")
    IN  IF result.exc = ""
        THEN LoopState(add_file(st.store_files, result.file_node),
                       st.files_indexed + 1,
                       st.functions_found + Len(result.functions),
                       st.errors, FALSE)
        ELSE LoopState(st.store_files, st.files_indexed, st.functions_found,
                       Append(st.errors, ErrorEntry(py_file, result.message)),
                       FALSE)

MaxRuns == 2
MaxWrites == 1

NoIndexResult ==
    [returned |-> FALSE, success |-> FALSE, files_indexed |-> 0,
     functions_found |-> 0, errors |-> <<>>]

\* Indexer.__init__, in a repository with any entries
IndexIdle ==
    /\ pc = "idle"
    /\ pending = {}
    /\ files_indexed = 0
    /\ functions_found = 0
    /\ errors = <<>>
    /\ index_result = NoIndexResult
    /\ runs = 0
    /\ writes = 0
    /\ fresh = TRUE

\* index_repository is called: lines 35-40
IndexStart ==
    /\ pc = "idle"
    /\ runs < MaxRuns
    /\ pc' = "scanning"
    /\ runs' = runs + 1
    /\ pending' = rglob(fs)
    /\ files_indexed' = 0
    /\ functions_found' = 0
    /\ errors' = <<>>
    /\ index_result' = NoIndexResult
    /\ fresh' = TRUE
    /\ UNCHANGED <<confVars, fs, writes, storeVars, distVars, scorerVars,
                   parseVars, queryVars>>

\* one pass of the loop, on whichever path rglob yields next
IndexFile(py_file) ==
    /\ pc = "scanning"
    /\ py_file \in pending
    /\ LET next == index_step(LoopState(store_files, files_indexed,
                                        functions_found, errors, FALSE),
                              fs, py_file)
       IN  /\ store_files' = next.store_files
           /\ files_indexed' = next.files_indexed
           /\ functions_found' = next.functions_found
           /\ errors' = next.errors
           /\ pc' = IF next.raised THEN "crashed" ELSE "scanning"
    /\ pending' = pending \ {py_file}
    /\ UNCHANGED <<confVars, fs, index_result, runs, writes, fresh,
                   store_functions, store_edges, distVars, scorerVars,
                   parseVars, queryVars>>

\* the loop is over: return IndexResult(success=True, ...)
IndexFinish ==
    /\ pc = "scanning"
    /\ pending = {}
    /\ index_result' = [returned |-> TRUE, success |-> TRUE,
                        files_indexed |-> files_indexed,
                        functions_found |-> functions_found,
                        errors |-> errors]
    /\ pc' = "idle"
    /\ files_indexed' = 0
    /\ functions_found' = 0
    /\ errors' = <<>>
    /\ UNCHANGED <<confVars, fs, pending, runs, writes, fresh, storeVars,
                   distVars, scorerVars, parseVars, queryVars>>

\* between two runs somebody changes an entry of the repository
WriteFile(path, entry) ==
    /\ pc = "idle"
    /\ runs > 0
    /\ writes < MaxWrites
    /\ fs[path] # entry
    /\ fs' = [fs EXCEPT ![path] = entry]
    /\ writes' = writes + 1
    /\ fresh' = FALSE
    /\ UNCHANGED <<confVars, pc, pending, files_indexed, functions_found,
                   errors, index_result, runs, storeVars, distVars, scorerVars,
                   parseVars, queryVars>>

IndexNext ==
    \/ IndexStart
    \/ \E py_file \in Paths : IndexFile(py_file)
    \/ IndexFinish
    \/ \E path \in Paths, entry \in Entries : WriteFile(path, entry)

(***************************************************************************)
(* retrieval/context_pack.py: ContextPackBuilder.  A str is the list of    *)
(* its characters where the code looks inside it (lower, in).              *)
(***************************************************************************)
UpperCase ==
    <<"A", "B", "C", "D", "E", "F", "G", "H", "I", "J", "K", "L", "M", "N",
      "O", "P", "Q", "R", "S", "T", "U", "V", "W", "X", "Y", "Z">>

LowerCase ==
    <<"a", "b", "c", "d", "e", "f", "g", "h", "i", "j", "k", "l", "m", "n",
      "o", "p", "q", "r", "s", "t", "u", "v", "w", "x", "y", "z">>

\* str.lower()
str_lower(text) ==
    [i \in 1 .. Len(text) |->
        IF \E k \in 1 .. Len(UpperCase) : UpperCase[k] = text[i]
        THEN LowerCase[CHOOSE k \in 1 .. Len(UpperCase) : UpperCase[k] = text[i]]
        ELSE text[i]]

\* term in text
str_in(term, text) ==
    \E i \in 1 .. Len(text) - Len(term) + 1 :
        SubSeq(text, i, i + Len(term) - 1) = term

\* "Add email validation to user registration"
EmailValidationQuery ==
    <<"A", "d", "d", " ", "e", "m", "a", "i", "l", " ", "v", "a", "l", "i",
    "d", "a", "t", "i", "o", "n", " ", "t", "o", " ", "u", "s", "e",
    "r", " ", "r", "e", "g", "i", "s", "t", "r", "a", "t", "i", "o",
    "n">>

\* "Fix authentication bug"
AuthenticationQuery ==
    <<"F", "i", "x", " ", "a", "u", "t", "h", "e", "n", "t", "i", "c", "a",
    "t", "i", "o", "n", " ", "b", "u", "g">>

Queries == {EmailValidationQuery, AuthenticationQuery}

\* ['auth', 'user', 'login', 'register'] (line 48)
AccountTerms ==
    {<<"a", "u", "t", "h">>, <<"u", "s", "e", "r">>,
     <<"l", "o", "g", "i", "n">>,
     <<"r", "e", "g", "i", "s", "t", "e", "r">>}

\* ['valid', 'email'] (line 50)
ValidationTerms ==
    {<<"v", "a", "l", "i", "d">>, <<"e", "m", "a", "i", "l">>}

\* a slip: the two keyword scores swapped
keyword_score_swapped(query, path) ==
    LET query_lower == str_lower(query)
        path_lower == str_lower(PathChars(path))
    IN  IF \E term \in AccountTerms :
               str_in(term, query_lower) /\ str_in(term, path_lower)
        THEN R(9, 10)
        ELSE IF \E term \in ValidationTerms :
                    str_in(term, query_lower) /\ str_in(term, path_lower)
        THEN R(8, 10)
        ELSE R(5, 10)

\* the placeholder score of a file (lines 43-51)
keyword_score(query, path) ==
    LET query_lower == str_lower(query)
        path_lower == str_lower(PathChars(path))
    IN  IF \E term \in AccountTerms :
               str_in(term, query_lower) /\ str_in(term, path_lower)
        THEN R(8, 10)
        ELSE IF \E term \in ValidationTerms :
                    str_in(term, query_lower) /\ str_in(term, path_lower)
        THEN R(9, 10)
        ELSE R(5, 10)

\* ScoredFile(path=..., score=..., rationale=f"File matches query terms: ...")
ScoredFile(query, file_node) ==
    [path |-> file_node.path,
     score |-> keyword_score(query, file_node.path),
     rationale |-> <<"File matches query terms: ", file_node.path>>]

\* sorted(..., key=lambda f: f.score, reverse=True) with one more element:
\* the sort is stable, so f goes behind every element scoring as much or more
InsertByScore(ranked, f) ==
    LET k == Cardinality({i \in 1 .. Len(ranked) : RLe(f.score, ranked[i].score)})
    IN  SubSeq(ranked, 1, k) \o <<f>> \o SubSeq(ranked, k + 1, Len(ranked))

RECURSIVE sorted_by_score(_)
\* sorted(scored_files, key=lambda f: f.score, reverse=True)
sorted_by_score(scored_files) ==
    IF scored_files = <<>> THEN <<>>
    ELSE InsertByScore(
             sorted_by_score(SubSeq(scored_files, 1, Len(scored_files) - 1)),
             scored_files[Len(scored_files)])

\* seq[:n]
SliceTo(seq, n) ==
    IF n >= 0
    THEN SubSeq(seq, 1, IF n < Len(seq) THEN n ELSE Len(seq))
    ELSE SubSeq(seq, 1, IF Len(seq) + n > 0 THEN Len(seq) + n ELSE 0)

RECURSIVE ScoreSum(_)
\* sum(f.score for f in top_files)
ScoreSum(files) ==
    IF files = <<>> THEN Zero
    ELSE RAdd(ScoreSum(SubSeq(files, 1, Len(files) - 1)),
              files[Len(files)].score)

\* a slip: the mean is taken over every scored file
total_confidence_of_all(scored_files, top_files) ==
    IF scored_files # <<>>
    THEN RMul(ScoreSum(scored_files), R(1, Len(scored_files)))
    ELSE Zero

\* sum(...) / len(top_files) if top_files else 0.0 (line 74)
total_confidence_of(scored_files, top_files) ==
    IF top_files # <<>>
    THEN RMul(ScoreSum(top_files), R(1, Len(top_files)))
    ELSE Zero

\* models/context_pack.py: FileReference
FileReference(file_path, relevance_score, rationale, related_nodes) ==
    [exc |-> IF InUnit(relevance_score) THEN "" ELSE "ValidationError",
     file_path |-> file_path, relevance_score |-> relevance_score,
     rationale |-> rationale, related_nodes |-> related_nodes]

NoPack ==
    [exc |-> "", returned |-> FALSE, query |-> <<>>, files |-> <<>>,
     total_confidence |-> Zero, retrieval_timestamp |-> "", max_hops |-> 0]

PackRaised(exc) == [NoPack EXCEPT !.exc = exc]

\* models/context_pack.py: ContextPack
ContextPack(query, files, total_confidence, retrieval_timestamp, max_hops) ==
    IF ~InUnit(total_confidence) \/ max_hops < 1
    THEN PackRaised("ValidationError")
    ELSE [exc |-> "", returned |-> TRUE, query |-> query, files |-> files,
          total_confidence |-> total_confidence,
          retrieval_timestamp |-> retrieval_timestamp, max_hops |-> max_hops]

\* the rest of build once the loop is over (lines 59-82)
build_pack(query, scored_files, top_n, max_hops) ==
    LET top_files == SliceTo(sorted_by_score(scored_files), top_n)
        file_refs == [i \in 1 .. Len(top_files) |->
                         FileReference(top_files[i].path, top_files[i].score,
                                       top_files[i].rationale, <<>>)]
    IN  IF \E i \in 1 .. Len(file_refs) : file_refs[i].exc # ""
        THEN PackRaised("ValidationError")
        ELSE ContextPack(query, file_refs,
                         total_confidence_of(scored_files, top_files),
                         "datetime.now()", max_hops)

\* a slip: the pass takes the item out of the dict
build_pass_popping(files, scored_files, query, iter) ==
    [files |-> SubSeq(files, 1, iter) \o SubSeq(files, iter + 2, Len(files)),
     scored_files |-> Append(scored_files, ScoredFile(query, files[iter + 1][2]))]

\* one pass of the loop over self.graph.files.items() (lines 41-57): the dict
\* afterwards and the list of scored files
build_pass(files, scored_files, query, iter) ==
    [files |-> files,
     scored_files |-> Append(scored_files, ScoredFile(query, files[iter + 1][2]))]

\* def build(self, query, top_n=10, max_hops=2); def query(self, query_text, top_n=10)
DefaultTopN == 10
DefaultMaxHops == 2

\* IndexerConfig.max_top_n, IndexerConfig.max_neighbor_hops
max_top_n == 50
max_neighbor_hops == 5

NoQueryCall ==
    [pc |-> "idle", via |-> "", query |-> <<>>, top_n |-> 0, max_hops |-> 0,
     iter |-> 0, iter_len |-> 0, scored_files |-> <<>>, result |-> NoPack,
     graph_before |-> <<EmptyDict, EmptyDict, <<>>>>,
     graph_after |-> <<EmptyDict, EmptyDict, <<>>>>,
     index_pc |-> "idle", index_runs |-> 0]

QueryIdle == query_call = NoQueryCall

\* ContextPackBuilder(graph).build(query, top_n, max_hops) is called: the
\* iterator over the dict is made (lines 39-41)
QueryStart(query, top_n, max_hops) ==
    /\ query_call.pc = "idle"
    /\ query_call' =
           [NoQueryCall EXCEPT
               !.pc = "scoring", !.via = "build", !.query = query,
               !.top_n = top_n, !.max_hops = max_hops,
               !.iter_len = Len(store_files),
               !.graph_before = <<store_files, store_functions, store_edges>>,
               !.index_pc = pc, !.index_runs = runs]
    /\ UNCHANGED <<confVars, scorerVars, parseVars, storeVars, distVars,
                   indexVars>>

\* QueryEngine(graph).query(query_text, top_n): the embedding of the query is
\* asked for, and when that returns, build(query_text, top_n) starts
EngineQuery(query_text, top_n, encoded) ==
    /\ query_call.pc = "idle"
    /\ query_call' =
           IF encoded
           THEN [NoQueryCall EXCEPT
                    !.pc = "scoring", !.via = "query", !.query = query_text,
                    !.top_n = top_n, !.max_hops = DefaultMaxHops,
                    !.iter_len = Len(store_files),
                    !.graph_before = <<store_files, store_functions, store_edges>>,
                    !.index_pc = pc, !.index_runs = runs]
           ELSE [NoQueryCall EXCEPT
                    !.pc = "done", !.via = "query", !.query = query_text,
                    !.top_n = top_n, !.max_hops = DefaultMaxHops,
                    !.result = PackRaised("EmbeddingError"),
                    !.graph_before = <<store_files, store_functions, store_edges>>,
                    !.graph_after = <<store_files, store_functions, store_edges>>,
                    !.index_pc = pc, !.index_runs = runs]
    /\ UNCHANGED <<confVars, scorerVars, parseVars, storeVars, distVars,
                   indexVars>>

\* the for statement asks the iterator for the next item: a dict whose size
\* changed since the iterator was made raises RuntimeError, otherwise the
\* item is scored
QueryStep ==
    /\ query_call.pc = "scoring"
    /\ Len(store_files) # query_call.iter_len \/ query_call.iter < Len(store_files)
    /\ IF Len(store_files) # query_call.iter_len
       THEN /\ query_call' =
                   [query_call EXCEPT
                       !.pc = "done", !.result = PackRaised("RuntimeError"),
                       !.graph_after =
                           <<store_files, store_functions, store_edges>>]
            /\ UNCHANGED store_files
       ELSE /\ query_call' =
                   [query_call EXCEPT
                       !.iter = @ + 1,
                       !.scored_files =
                           build_pass(store_files, query_call.scored_files,
                                      query_call.query,
                                      query_call.iter).scored_files]
            /\ store_files' =
                   build_pass(store_files, query_call.scored_files,
                              query_call.query, query_call.iter).files
    /\ UNCHANGED <<confVars, store_functions, store_edges, scorerVars,
                   parseVars, distVars, indexVars>>

\* the iterator is exhausted: sort, cut, build the pack (lines 59-82)
QueryFinish ==
    /\ query_call.pc = "scoring"
    /\ Len(store_files) = query_call.iter_len
    /\ query_call.iter = Len(store_files)
    /\ query_call' =
           [query_call EXCEPT
               !.pc = "done",
               !.result = build_pack(query_call.query, query_call.scored_files,
                                     query_call.top_n, query_call.max_hops),
               !.graph_after = <<store_files, store_functions, store_edges>>]
    /\ UNCHANGED <<confVars, scorerVars, parseVars, storeVars, distVars,
                   indexVars>>

\* the arguments tried
TopNArgs == {-1, 0, 2, DefaultTopN}
MaxHopsArgs == {0, DefaultMaxHops, max_neighbor_hops + 1}

\* the FileNodes of a small project, as the parser makes them
QueryFileNodes ==
    {parse_file("src/registration.py", RegistrationContent).file_node,
     parse_file("src/validation.py", ValidationContent).file_node,
     parse_file("src/models.py", ServiceContent).file_node,
     parse_file("src/auth.py", MainContent).file_node}

\* a client fills the store, then asks
QueryNext ==
    \/ /\ query_call.pc = "idle"
       /\ \E file_node \in QueryFileNodes : AddFile(file_node)
    \/ /\ query_call.pc = "idle"
       /\ store_functions = EmptyDict
       /\ AddFunction(parse_file("src/models.py", ServiceContent).functions[1])
    \/ /\ query_call.pc = "idle"
       /\ store_functions # EmptyDict
       /\ store_edges = <<>>
       /\ AddEdge(parse_file("src/models.py", ServiceContent).edges[1])
    \/ \E query \in Queries, top_n \in TopNArgs, max_hops \in MaxHopsArgs :
          QueryStart(query, top_n, max_hops)
    \/ \E query_text \in Queries, top_n \in TopNArgs, encoded \in BOOLEAN :
          EngineQuery(query_text, top_n, encoded)
    \/ QueryStep
    \/ QueryFinish

(***************************************************************************)
(* utils/confidence.py.  A confidence is an exact rational.                *)
(***************************************************************************)
\* max(0.0, min(1.0, confidence))
Clamp(confidence) ==
    IF RLt(confidence, Zero) THEN Zero
    ELSE IF RGt(confidence, One) THEN One
    ELSE confidence

SyntaxErrorFactor == R(7, 10)
ErrorRatioWeight == R(5, 10)
MissingTargetFactor == R(5, 10)
ResolvedBonus == R(11, 10)

\* a slip: the result is returned as computed
calculate_parse_confidence_unclamped(error_count, total_nodes, has_syntax_errors) ==
    IF total_nodes = 0
    THEN Zero
    ELSE LET base == IF has_syntax_errors
                     THEN RMul(One, SyntaxErrorFactor) ELSE One
         IN  IF error_count > 0
             THEN RMul(base,
                       RSub(One, RMul(R(error_count, total_nodes),
                                      ErrorRatioWeight)))
             ELSE base

\* calculate_parse_confidence
calculate_parse_confidence(error_count, total_nodes, has_syntax_errors) ==
    IF total_nodes = 0
    THEN Zero
    ELSE LET base == IF has_syntax_errors
                     THEN RMul(One, SyntaxErrorFactor) ELSE One
             confidence ==
                 IF error_count > 0
                 THEN RMul(base,
                           RSub(One, RMul(R(error_count, total_nodes),
                                          ErrorRatioWeight)))
                 ELSE base
         IN  Clamp(confidence)

\* a slip: the bonus does not ask whether the target exists
calculate_relationship_confidence_bonus_always(source_confidence, target_exists, import_resolved) ==
    LET penalized == IF ~target_exists
                     THEN RMul(source_confidence, MissingTargetFactor)
                     ELSE source_confidence
        confidence ==
            IF import_resolved
            THEN LET raised == RMul(penalized, ResolvedBonus)
                 IN  IF RLt(raised, One) THEN raised ELSE One
            ELSE penalized
    IN  Clamp(confidence)

\* calculate_relationship_confidence
calculate_relationship_confidence(source_confidence, target_exists, import_resolved) ==
    LET penalized == IF ~target_exists
                     THEN RMul(source_confidence, MissingTargetFactor)
                     ELSE source_confidence
        confidence ==
            IF target_exists /\ import_resolved
            THEN LET raised == RMul(penalized, ResolvedBonus)
                 IN  IF RLt(raised, One) THEN raised ELSE One
            ELSE penalized
    IN  Clamp(confidence)

MaxTotalNodes == 3
ConfidenceSteps == 20

\* the node counts and ERROR counts tried: more errors than nodes included
TotalNodeCounts == 0 .. MaxTotalNodes
ErrorCounts == 0 .. 2 * MaxTotalNodes + 1

\* the confidences of source nodes: 0, 1/ConfidenceSteps, ..., 1
SourceConfidences == {R(k, ConfidenceSteps) : k \in 0 .. ConfidenceSteps}

NoConfidenceCall ==
    [op |-> "", error_count |-> 0, total_nodes |-> 0,
     has_syntax_errors |-> FALSE, source_confidence |-> Zero,
     target_exists |-> FALSE, import_resolved |-> FALSE, result |-> Zero]

ConfidenceIdle == confidence_call = NoConfidenceCall

\* calculate_parse_confidence(error_count, total_nodes, has_syntax_errors)
ParseConfidence(error_count, total_nodes, has_syntax_errors) ==
    /\ confidence_call.op = ""
    /\ confidence_call' =
           [NoConfidenceCall EXCEPT
               !.op = "parse", !.error_count = error_count,
               !.total_nodes = total_nodes,
               !.has_syntax_errors = has_syntax_errors,
               !.result = calculate_parse_confidence(error_count, total_nodes,
                                                     has_syntax_errors)]
    /\ UNCHANGED <<scorerVars, parseVars, storeVars, distVars, indexVars,
                   queryVars>>

\* calculate_relationship_confidence(source_confidence, target_exists,
\* import_resolved)
RelationshipConfidence(source_confidence, target_exists, import_resolved) ==
    /\ confidence_call.op = ""
    /\ confidence_call' =
           [NoConfidenceCall EXCEPT
               !.op = "relationship",
               !.source_confidence = source_confidence,
               !.target_exists = target_exists,
               !.import_resolved = import_resolved,
               !.result = calculate_relationship_confidence(
                              source_confidence, target_exists,
                              import_resolved)]
    /\ UNCHANGED <<scorerVars, parseVars, storeVars, distVars, indexVars,
                   queryVars>>

ConfidenceNext ==
    \/ \E error_count \in ErrorCounts, total_nodes \in TotalNodeCounts,
          has_syntax_errors \in BOOLEAN :
          ParseConfidence(error_count, total_nodes, has_syntax_errors)
    \/ \E source_confidence \in SourceConfidences,
          target_exists \in BOOLEAN, import_resolved \in BOOLEAN :
          RelationshipConfidence(source_confidence, target_exists,
                                 import_resolved)

(***************************************************************************)
(* Specifications                                                          *)
(***************************************************************************)
\* the repository does not matter to the scorer, the parser and the
\* distance calculator
EmptyRepo == fs = [p \in RepoPaths |-> Absent]

ScorerInit ==
    ScorerIdle /\ ParseIdle /\ StoreIdle /\ DistIdle /\ IndexIdle /\ QueryIdle /\ ConfidenceIdle
        /\ EmptyRepo
SpecScore == ScorerInit /\ [][ScorerNext]_vars

ParseInit ==
    ScorerIdle /\ ParseIdle /\ StoreIdle /\ DistIdle /\ IndexIdle /\ QueryIdle /\ ConfidenceIdle
        /\ EmptyRepo
SpecParse == ParseInit /\ [][ParseNext]_vars

DistInit ==
    ScorerIdle /\ ParseIdle /\ StoreIdle /\ DistIdle /\ IndexIdle /\ QueryIdle /\ ConfidenceIdle
        /\ EmptyRepo
SpecDist == DistInit /\ [][DistNext]_vars

StoreInit ==
    ScorerIdle /\ ParseIdle /\ StoreIdle /\ DistIdle /\ IndexIdle /\ QueryIdle /\ ConfidenceIdle
        /\ EmptyRepo
SpecStore == StoreInit /\ [][StoreNext]_vars

QueryInit ==
    ScorerIdle /\ ParseIdle /\ StoreIdle /\ DistIdle /\ IndexIdle /\ QueryIdle /\ ConfidenceIdle
        /\ EmptyRepo
SpecQuery == QueryInit /\ [][QueryNext]_vars

\* a project in which a registration module imports a validation module,
\* next to a module that has to do with neither
ScenarioRepo ==
    [p \in RepoPaths |->
        CASE p = "src/registration.py" -> Entry("file", RegistrationContent)
          [] p = "src/validation.py" -> Entry("file", ValidationContent)
          [] p = "src/models.py" -> Entry("file", ServiceContent)
          [] OTHER -> Absent]

\* one thread indexes the project while another one queries the same store
RetrieveNext ==
    \/ IndexStart
    \/ \E py_file \in Paths : IndexFile(py_file)
    \/ IndexFinish
    \/ \E query \in Queries : QueryStart(query, DefaultTopN, DefaultMaxHops)
    \/ \E top_n \in TopNArgs, encoded \in BOOLEAN :
          EngineQuery(EmailValidationQuery, top_n, encoded)
    \/ QueryStep
    \/ QueryFinish

RetrieveInit ==
    /\ ScorerIdle /\ ParseIdle /\ StoreIdle /\ DistIdle /\ IndexIdle
    /\ QueryIdle /\ ConfidenceIdle
    /\ fs = ScenarioRepo
SpecRetrieve == RetrieveInit /\ [][RetrieveNext]_vars

\* the indexer starts on any repository
Init ==
    /\ ScorerIdle /\ ParseIdle /\ StoreIdle /\ DistIdle /\ IndexIdle
    /\ QueryIdle /\ ConfidenceIdle
    /\ \E python_files \in [Paths -> Entries] :
           fs = [p \in RepoPaths |->
                    IF p \in Paths THEN python_files[p] ELSE Absent]
Next == IndexNext
Spec == Init /\ [][Next]_vars

\* a repository of Python modules next to a TypeScript module and a text file
LanguagesNext ==
    \/ IndexStart
    \/ \E py_file \in RepoPaths : IndexFile(py_file)
    \/ IndexFinish

LanguagesInit ==
    /\ ScorerIdle /\ ParseIdle /\ StoreIdle /\ DistIdle /\ IndexIdle
    /\ QueryIdle /\ ConfidenceIdle
    /\ \E python_files \in [Paths -> {Absent, Dangling,
                                      Entry("file", ServiceContent)}],
          others \in [OtherPaths -> {Absent, Entry("file", AppContent)}] :
           fs = [p \in RepoPaths |->
                    IF p \in Paths THEN python_files[p] ELSE others[p]]
SpecLanguages == LanguagesInit /\ [][LanguagesNext]_vars

(***************************************************************************)

\* the scheduler keeps running a call that has started
BfsInit ==
    /\ ScorerIdle /\ ParseIdle /\ StoreIdle /\ DistIdle /\ IndexIdle
    /\ QueryIdle /\ ConfidenceIdle
    /\ EmptyRepo
SpecBfs == BfsInit /\ [][BfsNext]_vars /\ WF_vars(BfsStep)

ConfidenceInit ==
    /\ ScorerIdle /\ ParseIdle /\ StoreIdle /\ DistIdle /\ IndexIdle
    /\ QueryIdle /\ ConfidenceIdle
    /\ EmptyRepo
SpecConfidence == ConfidenceInit /\ [][ConfidenceNext]_vars

(* Claims about the hybrid scorer (checked under SpecScore)                *)
(***************************************************************************)
\* the last constructor call was HybridScorer() or passed the default weights
CtorWithDefaults ==
    /\ ctor_call.called
    /\ ctor_call.semantic_weight = R(2, 5)
    /\ ctor_call.graph_weight = R(2, 5)
    /\ ctor_call.execution_weight = R(1, 5)

\* h = (4*s + 4*g + 2*e) / 10, by cross-multiplication on integers
IsDefaultCombination(h, s, g, e) ==
    h[1] * 10 * s[2] * g[2] * e[2]
        = h[2] * (4 * s[1] * g[2] * e[2] + 4 * g[1] * s[2] * e[2]
                  + 2 * e[1] * s[2] * g[2])

ScoredInUnit ==
    /\ score_call.op = "score"
    /\ InUnit(score_call.semantic_score)
    /\ InUnit(score_call.graph_score)
    /\ InUnit(score_call.execution_score)

\* C2: with the default weights, score(s, g, e) for s, g, e in [0,1] returns
\* a breakdown whose hybrid_score is 0.4*s + 0.4*g + 0.2*e (so 1 at (1,1,1),
\* 0 at (0,0,0), 0.4 at (1,0,0) and (0,1,0), 0.2 at (0,0,1)) and whose three
\* components are the inputs unchanged.
C2_DefaultWeightsFormula ==
    (CtorWithDefaults /\ ScoredInUnit) =>
        LET r == score_call.result
            s == score_call.semantic_score
            g == score_call.graph_score
            e == score_call.execution_score
        IN  /\ scorer.exists
            /\ r.exc = ""
            /\ IsDefaultCombination(r.hybrid_score, s, g, e)
            /\ r.semantic_score = s
            /\ r.graph_score = g
            /\ r.execution_score = e
            /\ (s = One /\ g = One /\ e = One) => r.hybrid_score = <<1, 1>>
            /\ (s = Zero /\ g = Zero /\ e = Zero) => r.hybrid_score = <<0, 1>>
            /\ (s = One /\ g = Zero /\ e = Zero) => r.hybrid_score = <<2, 5>>
            /\ (s = Zero /\ g = One /\ e = Zero) => r.hybrid_score = <<2, 5>>
            /\ (s = Zero /\ g = Zero /\ e = One) => r.hybrid_score = <<1, 5>>

\* the default scorer has scored (0, 1, 1/2): hybrid 0.4 + 0.1 = 0.5
C2_Witness ==
    /\ CtorWithDefaults
    /\ score_call.op = "score"
    /\ score_call.semantic_score = <<0, 1>>
    /\ score_call.graph_score = <<1, 1>>
    /\ score_call.execution_score = <<1, 2>>
    /\ score_call.result.exc = ""
    /\ score_call.result.hybrid_score = <<1, 2>>

\* a weight that is a whole number of thousandths, in thousandths
Thousandths(a) == (a[1] * 1000) \div a[2]

\* |a + b + c - 1| <= 1/1000, on whole thousandths
SumWithinTolerance(a, b, c) ==
    IAbs(Thousandths(a) + Thousandths(b) + Thousandths(c) - 1000) <= 1

IsHalfHalf(h, s, g) ==
    h[1] * 2 * s[2] * g[2] = h[2] * (s[1] * g[2] + g[1] * s[2])

\* C4: when the execution signal of a candidate is unavailable, the hybrid
\* score is 0.5*semantic + 0.5*graphProximity (the execution weight is not
\* applied to a zero value): semantic 0.8 at hop distance 2 scores 17/30,
\* about 0.567.
C4_FallbackWithoutExecutionSignal ==
    (/\ CtorWithDefaults
     /\ score_call.op = "score_query"
     /\ ~score_call.has_execution_signals
     /\ score_call.graph_distance >= 0) =>
        /\ score_call.result.exc = ""
        /\ IsHalfHalf(score_call.result.hybrid_score, R(8, 10),
                      R(1, 1 + score_call.graph_distance))

\* C5: for every scorer the constructor accepts and all component inputs in
\* [0,1], score returns a breakdown (it does not fail) whose hybrid_score
\* lies in [0,1].
C5_ScoreAlwaysInUnit ==
    (scorer.exists /\ ScoredInUnit) =>
        /\ score_call.result.exc = ""
        /\ InUnit(score_call.result.hybrid_score)

(***************************************************************************)
(* Claims about parse diagnosis and FileNode (checked under SpecParse)     *)
(***************************************************************************)
\* the number of ERROR or missing nodes of a tree whose nodes all hang from
\* the root
ErrorNodeCount(content) ==
    Cardinality({k \in 1 .. Len(content.nodes) :
                    content.nodes[k].type = "ERROR"
                        \/ content.nodes[k].is_missing})

\* C9: for every parsed tree the status is SUCCESS exactly when the tree has
\* no error or missing node; PARTIAL implies a positive error count and the
\* root's has_error flag; FAILED implies a positive error count and the flag
\* not set; the recorded error_count is the number of such nodes; and the
\* result's success flag equals (status # FAILED).
C9_ParseStatusInvariant ==
    parse_call.called =>
        LET r == parse_call.result
            n == ErrorNodeCount(parse_call.content)
            st == r.file_node.parse_status
        IN  /\ r.exc = ""
            /\ st \in ParseStatuses
            /\ r.file_node.error_count = n
            /\ st = "success" <=> n = 0
            /\ st = "partial" => n > 0 /\ parse_call.content.has_error
            /\ st = "failed" => n > 0 /\ ~parse_call.content.has_error
            /\ r.success <=> st # "failed"

\* a tree with a missing node under a root whose has_error flag is set was
\* diagnosed PARTIAL
C9_Witness ==
    /\ parse_call.called
    /\ parse_call.result.file_node.parse_status = "partial"
    /\ parse_call.result.file_node.error_count = 2
    /\ \E k \in 1 .. Len(parse_call.content.nodes) :
          parse_call.content.nodes[k].is_missing
    /\ parse_call.result.success

\* C10: constructing a FileNode with parse_status SUCCESS and a positive
\* error_count is rejected with a validation error.
C10_SuccessWithErrorsRejected ==
    (/\ fn_call.called
     /\ fn_call.args.parse_status = "success"
     /\ fn_call.args.error_count > 0) =>
        fn_call.result.exc = "ValidationError"

(***************************************************************************)
(* Claims about the distance calculator (checked under SpecDist)           *)
(***************************************************************************)
\* the directed relation source_id -> target_id the stored edges carry
EdgeRelation(edges) ==
    {<<edges[i].metadata.source_id, edges[i].metadata.target_id>> :
        i \in 1 .. Len(edges)}

RECURSIVE ReachedWithin(_, _, _)
\* the nodes a directed path of at most k edges leads to from s
ReachedWithin(rel, s, k) ==
    IF k = 0 THEN {s}
    ELSE ReachedWithin(rel, s, k - 1)
             \cup {r[2] : r \in {q \in rel : q[1] \in ReachedWithin(rel, s, k - 1)}}

\* the lengths of the directed paths from s to t, up to the longest simple one
PathLengths(rel, s, t) ==
    {k \in 0 .. Cardinality(NodeIds) : t \in ReachedWithin(rel, s, k)}

\* C1: for every edge list and every pair (source, target) the call returns
\* the length of a shortest directed path from source to target over
\* source_id -> target_id: 0 when source = target, 1 for a direct edge, 2 for
\* A->B->C, and infinity when there is no directed path.
C1_ShortestPathLength ==
    dist_call.called =>
        LET lens == PathLengths(EdgeRelation(store_edges),
                                dist_call.source_id, dist_call.target_id)
        IN  /\ dist_call.result.exc = ""
            /\ dist_call.result.inf <=> lens = {}
            /\ lens # {} =>
                  /\ dist_call.result.hops \in lens
                  /\ \A k \in lens : dist_call.result.hops <= k

(***************************************************************************)
(* Claims about the indexer (checked under Spec)                           *)
(***************************************************************************)
\* index_repository has returned and the repository is as the run saw it
RunReturned == pc = "idle" /\ index_result.returned /\ fresh

\* the candidates whose processing raises: a dangling link, undecodable bytes
Unreadable(fsys) == {p \in Paths : fsys[p].kind \in {"dangling", "undecodable"}}

\* the candidates that are regular, decodable files
Readable(fsys) == {p \in Paths : fsys[p].kind = "file"}

\* the entries of the error list that start with the path p
EntriesOf(errs, p) == {i \in 1 .. Len(errs) : errs[i][1] = p}

\* C6: an exception raised while one file is processed never leaves
\* index_repository: it is recorded as one entry "<path>: <message>", every
\* other candidate is still processed, and the run returns success = TRUE
\* however many files failed.
C6_FileErrorsAreRecorded ==
    /\ pc # "crashed"
    /\ RunReturned =>
          /\ index_result.success
          /\ Len(index_result.errors) = Cardinality(Unreadable(fs))
          /\ \A p \in Unreadable(fs) :
                \E i \in 1 .. Len(index_result.errors) :
                    /\ EntriesOf(index_result.errors, p) = {i}
                    /\ index_result.errors[i][2] = ": "
                    /\ Len(index_result.errors[i]) > 2
          /\ \A p \in Readable(fs) : EntriesOf(index_result.errors, p) = {}
          /\ index_result.files_indexed = Cardinality(Readable(fs))

\* a run over two failing files and one sound file has returned
C6_Witness ==
    /\ RunReturned
    /\ Cardinality(Unreadable(fs)) = 2
    /\ Len(index_result.errors) = 2
    /\ index_result.files_indexed = 1
    /\ index_result.success

\* the function definitions of a content that have a name
NamedFunctions(content) ==
    {i \in 1 .. Len(content.nodes) :
        /\ content.nodes[i].type = "function_definition"
        /\ \E k \in 1 .. Len(content.nodes[i].children) :
              /\ content.nodes[content.nodes[i].children[k]].type = "identifier"
              /\ content.nodes[content.nodes[i].children[k]].text # ""}

RECURSIVE FunctionTotal(_, _)
\* the number of named function definitions in the files at the paths ps
FunctionTotal(fsys, ps) ==
    IF ps = {} THEN 0
    ELSE Cardinality(NamedFunctions(fsys[CHOOSE p \in ps : TRUE].content))
             + FunctionTotal(fsys, ps \ {CHOOSE p \in ps : TRUE})

\* the candidates that are empty files
EmptyFiles(fsys) == {p \in Readable(fsys) : fsys[p].content.text = ""}

\* the candidates that are files with sound, non-empty source
ValidFiles(fsys) ==
    {p \in Readable(fsys) :
        fsys[p].content.text # "" /\ ErrorNodeCount(fsys[p].content) = 0}

\* one candidate is empty or unreadable and every other one is valid
OneEmptyOrUnreadable(fsys) ==
    /\ Cardinality(EmptyFiles(fsys) \cup Unreadable(fsys)) = 1
    /\ rglob(fsys) = ValidFiles(fsys) \cup EmptyFiles(fsys) \cup Unreadable(fsys)

\* C7: as stated: a directory of N valid files and one empty or unreadable
\* file gives files_indexed = N, exactly one error entry and success = TRUE.
C7_EmptyOrUnreadableIsOneError ==
    (RunReturned /\ OneEmptyOrUnreadable(fs)) =>
        /\ index_result.files_indexed = Cardinality(ValidFiles(fs))
        /\ Len(index_result.errors) = 1
        /\ index_result.success

\* C7: as the code has it: a directory of N valid files and one unreadable
\* file gives files_indexed = N, exactly one error entry and success = TRUE,
\* while an empty file is indexed like any other and adds no error entry;
\* files_indexed plus the number of error entries is the number of
\* candidates, and functions_found is the sum of the function counts of the
\* indexed files.
C7_UnreadableIsOneError ==
    RunReturned =>
        /\ (/\ Cardinality(Unreadable(fs)) = 1
            /\ rglob(fs) = ValidFiles(fs) \cup Unreadable(fs)) =>
               /\ index_result.files_indexed = Cardinality(ValidFiles(fs))
               /\ Len(index_result.errors) = 1
               /\ index_result.success
        /\ \A p \in EmptyFiles(fs) : EntriesOf(index_result.errors, p) = {}
        /\ index_result.files_indexed = Cardinality(Readable(fs))
        /\ index_result.files_indexed + Len(index_result.errors)
               = Cardinality(rglob(fs))
        /\ index_result.functions_found = FunctionTotal(fs, Readable(fs))

\* a run over two valid files and one unreadable file has returned, the
\* functions of the two valid files counted
C7_Witness ==
    /\ RunReturned
    /\ Cardinality(ValidFiles(fs)) = 2
    /\ Cardinality(Unreadable(fs)) = 1
    /\ index_result.files_indexed = 2
    /\ Len(index_result.errors) = 1
    /\ index_result.functions_found = 4

\* the elements of a list
Elements(seq) == {seq[i] : i \in 1 .. Len(seq)}

\* everything the parser extracts from the file at p is in the store
AllStored(p) ==
    /\ parse_file(p, fs[p].content).file_node.id \in DictKeys(store_files)
    /\ \A f \in Elements(parse_file(p, fs[p].content).functions) :
          f.id \in DictKeys(store_functions)
    /\ Elements(parse_file(p, fs[p].content).edges) \subseteq Elements(store_edges)

\* nothing the parser extracts from the file at p is in the store
NoneStored(p) ==
    /\ parse_file(p, fs[p].content).file_node.id \notin DictKeys(store_files)
    /\ \A f \in Elements(parse_file(p, fs[p].content).functions) :
          f.id \notin DictKeys(store_functions)
    /\ Elements(parse_file(p, fs[p].content).edges) \cap Elements(store_edges) = {}

\* C8: after index_repository every file is in the store with its FileNode
\* and all the functions and edges extracted from it, or not at all: a file
\* whose processing raised adds nothing, and a file parsed as PARTIAL has its
\* functions and edges stored.
C8_PerFileCommitIsAtomic ==
    RunReturned =>
        /\ \A p \in Readable(fs) : AllStored(p) \/ NoneStored(p)
        /\ \A p \in Readable(fs) :
              parse_file(p, fs[p].content).file_node.parse_status = "partial"
                  => AllStored(p)

(***************************************************************************)
(* Claims about FileNode identity (checked under SpecParse)                *)
(***************************************************************************)
\* C11: every later parse of the same content, under whatever path, gives a
\* FileNode with the content_hash and the id of the first parse, and two
\* parses under different paths still differ in the path they record.
C11_SameContentSameId ==
    \A i \in 1 .. Len(reparse_calls) :
        /\ reparse_calls[i].result.exc = parse_call.result.exc
        /\ reparse_calls[i].result.exc = "" =>
              /\ reparse_calls[i].result.file_node.content_hash
                     = parse_call.result.file_node.content_hash
              /\ reparse_calls[i].result.file_node.id
                     = parse_call.result.file_node.id
              /\ reparse_calls[i].result.file_node.path = reparse_calls[i].path

\* a source with functions was parsed three times, under three paths
C11_Witness ==
    /\ parse_call.called
    /\ parse_call.content = ServiceContent
    /\ Len(reparse_calls) = 2
    /\ reparse_calls[1].path = "lib/a.py"
    /\ reparse_calls[2].path = "b.py"
    /\ reparse_calls[2].result.file_node.id = parse_call.result.file_node.id
    /\ reparse_calls[2].result.file_node.path # parse_call.result.file_node.path

(***************************************************************************)
(* Claims about indexing again (checked under Spec)                        *)
(***************************************************************************)
\* the id parse_file gives to the content now at path p
IdOnDisk(p) == Prefix16(Sha256(fs[p].content.text))

\* C12: after the repository is indexed again into the same store, the store
\* holds the FileNode of the content each file has now, and holds no FileNode
\* of a content the file at that path no longer has.
C12_ReindexReplacesFileNode ==
    RunReturned =>
        /\ \A p \in Readable(fs) : IdOnDisk(p) \in DictKeys(store_files)
        /\ \A i \in 1 .. Len(store_files) :
              fs[store_files[i][2].path].kind = "file"
                  => store_files[i][2].id = IdOnDisk(store_files[i][2].path)

(***************************************************************************)
(* Claims about the graph store (checked under SpecStore)                  *)
(***************************************************************************)
\* C13: every add_edge call, also one with an edge already stored, lengthens
\* the edge list by exactly one, the new edge last and the earlier entries
\* unchanged and in order; add_file and add_function leave the edge list as
\* it is; the list gets shorter only by clear.
C13_EdgeListAppendOnly ==
    [][/\ \A edge \in StoreEdges :
              AddEdge(edge) =>
                  /\ Len(store_edges') = Len(store_edges) + 1
                  /\ SubSeq(store_edges', 1, Len(store_edges)) = store_edges
                  /\ store_edges'[Len(store_edges')] = edge
       /\ (\E file_node \in StoreFileNodes : AddFile(file_node))
              => store_edges' = store_edges
       /\ (\E function_node \in StoreFunctions : AddFunction(function_node))
              => store_edges' = store_edges
       /\ Len(store_edges') < Len(store_edges) => Clear]_vars

\* the list holds the same edge twice next to another one, in a store that
\* also holds files and functions
C13_Witness ==
    /\ Len(store_edges) = 3
    /\ store_edges[1] = store_edges[3]
    /\ store_edges[1] # store_edges[2]
    /\ store_files # EmptyDict
    /\ store_functions # EmptyDict

(***************************************************************************)
(* Claims about the context pack (checked under SpecQuery)                 *)
(***************************************************************************)
\* build has returned a ContextPack
PackReturned == query_call.pc = "done" /\ query_call.result.returned

\* the characters of paths in code point order
CodePoints == <<".", "/">> \o UpperCase \o <<"_">> \o LowerCase
CodeOf(c) == CHOOSE k \in 1 .. Len(CodePoints) : CodePoints[k] = c

RECURSIVE StrLess(_, _)
\* a < b as Python compares two str
StrLess(a, b) ==
    IF b = <<>> THEN FALSE
    ELSE IF a = <<>> THEN TRUE
    ELSE IF Head(a) # Head(b) THEN CodeOf(Head(a)) < CodeOf(Head(b))
    ELSE StrLess(Tail(a), Tail(b))

\* C14: the file references of a pack are in descending order of score, and
\* two references with the same score are in ascending order of file path.
C14_RankedByScoreThenPath ==
    PackReturned =>
        \A i \in 1 .. Len(query_call.result.files) :
            \A j \in i + 1 .. Len(query_call.result.files) :
                \/ RLt(query_call.result.files[j].relevance_score,
                       query_call.result.files[i].relevance_score)
                \/ /\ query_call.result.files[j].relevance_score
                         = query_call.result.files[i].relevance_score
                   /\ StrLess(PathChars(query_call.result.files[i].file_path),
                              PathChars(query_call.result.files[j].file_path))

\* the maxima an IndexerConfig may set for top-N: a small one and the default
ConfigurableMaxTopN == {2, max_top_n}

\* C15: a pack holds at most top_n file references and never more than the
\* configured maximum, and no file left out scores strictly higher than a
\* file included.
C15_AtMostTopN ==
    PackReturned =>
        /\ Len(query_call.result.files) <= query_call.top_n
        /\ \A configured \in ConfigurableMaxTopN :
              Len(query_call.result.files) <= configured
        /\ \A i \in 1 .. Len(query_call.scored_files) :
              \/ \E j \in 1 .. Len(query_call.result.files) :
                    query_call.result.files[j].file_path
                        = query_call.scored_files[i].path
              \/ \A j \in 1 .. Len(query_call.result.files) :
                    RLe(query_call.scored_files[i].score,
                        query_call.result.files[j].relevance_score)

\* max_hops clamped to [1, max_neighbor_hops]
ClampedHops(max_hops) ==
    IF max_hops < 1 THEN 1
    ELSE IF max_hops > max_neighbor_hops THEN max_neighbor_hops
    ELSE max_hops

\* C16: for any requested max_hops, build returns a ContextPack whose max_hops
\* is the request clamped to [1, max_neighbor_hops], with a timestamp, also
\* when no file is in the result.
C16_MaxHopsClamped ==
    (query_call.pc = "done" /\ query_call.result.exc # "EmbeddingError") =>
        /\ query_call.result.exc = ""
        /\ query_call.result.returned
        /\ query_call.result.max_hops = ClampedHops(query_call.max_hops)
        /\ query_call.result.retrieval_timestamp # ""

RECURSIVE RelevanceSum(_)
\* the sum of the relevance scores of a list of file references
RelevanceSum(refs) ==
    IF refs = <<>> THEN Zero
    ELSE RAdd(Head(refs).relevance_score, RelevanceSum(Tail(refs)))

\* C17: total_confidence is the arithmetic mean of the relevance scores of
\* the file references in the pack, 0 when there is none, and lies in [0,1].
C17_TotalConfidenceIsMean ==
    PackReturned =>
        /\ query_call.result.files = <<>> => query_call.result.total_confidence = Zero
        /\ query_call.result.files # <<>> =>
              RMul(query_call.result.total_confidence,
                   R(Len(query_call.result.files), 1))
                  = RelevanceSum(query_call.result.files)
        /\ InUnit(query_call.result.total_confidence)

\* three files were scored, the two best are in the pack, with scores 0.9 and
\* 0.5 and confidence 0.7
C17_Witness ==
    /\ PackReturned
    /\ Len(query_call.scored_files) = 3
    /\ Len(query_call.result.files) = 2
    /\ query_call.result.files[1].relevance_score = R(9, 10)
    /\ query_call.result.files[2].relevance_score = R(5, 10)
    /\ query_call.result.total_confidence = R(7, 10)

\* C20: QueryEngine.query and ContextPackBuilder.build leave the files, the
\* functions and the edge list of the store as they were when the call began,
\* at every point of the call and whatever its outcome.
C20_QueryLeavesStoreAlone ==
    query_call.pc # "idle" =>
        query_call.graph_before = <<store_files, store_functions, store_edges>>

\* QueryEngine.query has returned a pack of three files from a store that also
\* holds a function and an edge
C20_Witness ==
    /\ PackReturned
    /\ query_call.via = "query"
    /\ Len(query_call.result.files) = 3
    /\ Len(store_files) = 3
    /\ store_functions # EmptyDict
    /\ store_edges # <<>>

(***************************************************************************)
(* Claims about retrieval over an indexed project (checked under           *)
(* SpecRetrieve)                                                           *)
(***************************************************************************)
\* the relevance score a pack gives to the file at a path
ScoreIn(pack, file_path) ==
    pack.files[CHOOSE i \in 1 .. Len(pack.files) :
                   pack.files[i].file_path = file_path].relevance_score

\* QueryEngine.query was asked the scenario's question, for the default
\* number of results, of a store no index run was touching, after a run
ScenarioAsked ==
    /\ query_call.pc = "done"
    /\ query_call.via = "query"
    /\ query_call.query = EmailValidationQuery
    /\ query_call.top_n = DefaultTopN
    /\ query_call.index_pc = "idle"
    /\ query_call.index_runs >= 1
    /\ query_call.result.exc \notin {"EmbeddingError", "RuntimeError"}

\* C18: after the project is indexed, the query "add email validation to
\* user registration" returns the three files with the validation file and
\* the registration file both scored strictly above the unrelated file, each
\* result with a rationale and a score in [0,1].
C18_ScenarioRanking ==
    ScenarioAsked =>
        /\ query_call.result.returned
        /\ {query_call.result.files[i].file_path :
               i \in 1 .. Len(query_call.result.files)} = Paths
        /\ \A i \in 1 .. Len(query_call.result.files) :
              /\ query_call.result.files[i].rationale # <<>>
              /\ InUnit(query_call.result.files[i].relevance_score)
        /\ RLt(ScoreIn(query_call.result, "src/models.py"),
               ScoreIn(query_call.result, "src/validation.py"))
        /\ RLt(ScoreIn(query_call.result, "src/models.py"),
               ScoreIn(query_call.result, "src/registration.py"))

\* the paths of the FileNodes in a dict
PathsIn(files) == {files[i][2].path : i \in 1 .. Len(files)}

\* C19: a query running at the same time as an index run returns a pack, and
\* the files it ranks are the files the store held when the query began or
\* the files it holds when the query ends, never a mixture and never a
\* failure caused by the concurrent writes.
C19_QuerySeesWholeIndex ==
    (query_call.pc = "done" /\ query_call.result.exc # "EmbeddingError") =>
        /\ query_call.result.returned
        /\ \/ {query_call.scored_files[i].path :
                  i \in 1 .. Len(query_call.scored_files)}
                  = PathsIn(query_call.graph_before[1])
           \/ {query_call.scored_files[i].path :
                  i \in 1 .. Len(query_call.scored_files)}
                  = PathsIn(query_call.graph_after[1])

(***************************************************************************)
(* Claims about the embedding provider (checked under SpecQuery)           *)
(***************************************************************************)
\* C21: a query through QueryEngine always ends with a ContextPack, also when
\* the embedding provider fails, times out or is missing.
C21_ProviderFailureStillReturnsPack ==
    (query_call.pc = "done" /\ query_call.via = "query") =>
        /\ query_call.result.exc = ""
        /\ query_call.result.returned

(***************************************************************************)
(* Claims about the languages indexed (checked under SpecLanguages)        *)
(***************************************************************************)
\* the language a file is written in, by its extension
LanguageOf(path) ==
    LET name == PathChars(path)
        ext(n) == IF Len(name) >= n
                  THEN SubSeq(name, Len(name) - n + 1, Len(name)) ELSE <<>>
    IN  IF ext(3) = <<".", "p", "y">> THEN "python"
        ELSE IF ext(3) = <<".", "t", "s">> THEN "typescript"
        ELSE IF ext(3) = <<".", "j", "s">> THEN "javascript"
        ELSE IF ext(3) = <<".", "g", "o">> THEN "go"
        ELSE "unknown"

\* the files of the repository that some registered extractor is for
Extractable(fsys) ==
    {p \in DOMAIN fsys : /\ fsys[p].kind # "absent"
                         /\ LanguageOf(p) \in RegisteredLanguages}

\* C22: index_repository passes every file of a registered language (python,
\* typescript, javascript, go) to that language's extractor, so each such
\* file is either indexed or recorded as an error; a file of no registered
\* language is skipped without a count and without an error.
C22_EveryRegisteredLanguageIsIndexed ==
    (RunReturned /\ runs = 1) =>
        index_result.files_indexed + Len(index_result.errors)
            = Cardinality(Extractable(fs))

(***************************************************************************)
(* Claims about the edges of a parsed file (checked under SpecParse)       *)
(***************************************************************************)
\* a file was parsed and a ParserResult came back
Parsed == parse_call.called /\ parse_call.result.exc = ""

EdgesOfType(edges, type) == SelectSeq(edges, LAMBDA e : e.type = type)

\* the base types a class definition names: the positional arguments of
\* its argument list
DeclaredBases(nodes, class_node) ==
    {nodes[b].text :
        b \in UNION {{nodes[a].children[k] : k \in 1 .. Len(nodes[a].children)} :
                     a \in Elements(ChildrenOfType(nodes, class_node,
                                                   {"argument_list"}))}}
        \ {nodes[b].text : b \in {k \in 1 .. Len(nodes) :
                                      nodes[k].type = "keyword_argument"}}

\* the name of a class definition
ClassNameOf(nodes, class_node) ==
    nodes[Head(ChildrenOfType(nodes, class_node, {"identifier"}))].text

\* C23: for every class of a parsed file there is exactly one INHERITS edge
\* per base type of the class, from the class to the base, and a class
\* without bases has no INHERITS edge.
C23_OneInheritsEdgePerBase ==
    Parsed =>
        LET nodes == parse_call.content.nodes
            inherits == EdgesOfType(parse_call.result.edges, "INHERITS")
        IN  \A c \in Elements(ChildrenOfType(nodes, 1, {"class_definition"})) :
                ChildrenOfType(nodes, c, {"identifier"}) # <<>> =>
                    LET from_class ==
                            SelectSeq(inherits,
                                      LAMBDA e : e.metadata.source_id
                                                     = <<ClassNameOf(nodes, c)>>)
                    IN  /\ Len(from_class)
                               = Cardinality(DeclaredBases(nodes, c))
                        /\ \A base \in DeclaredBases(nodes, c) :
                               \E k \in 1 .. Len(from_class) :
                                   from_class[k].metadata.target_id = <<base>>

\* C24: a parsed file has exactly one IMPORTS edge per entry of the result's
\* imports list, from the file's id to "module_" followed by the imported
\* module path.
C24_OneImportsEdgePerImport ==
    Parsed =>
        LET imports == parse_call.result.imports
            edges == EdgesOfType(parse_call.result.edges, "IMPORTS")
        IN  /\ Len(edges) = Len(imports)
            /\ \A k \in 1 .. Len(edges) :
                  /\ edges[k].metadata.source_id = parse_call.result.file_node.id
                  /\ k <= Len(imports) =>
                         edges[k].metadata.target_id
                             = <<"module_", imports[k].module>>

(***************************************************************************)
(* Claims about the confidence utilities (checked under SpecConfidence)    *)
(***************************************************************************)
\* C25: calculate_parse_confidence returns 0.0 when total_nodes = 0 and
\* otherwise 1.0 times 0.7 (if has_syntax_errors) times
\* (1 - 0.5 * error_count / total_nodes), clamped to [0, 1]; the result is
\* in [0, 1] for all non-negative inputs, error_count > total_nodes included.
C25_ParseConfidenceFormula ==
    confidence_call.op = "parse" =>
        LET ec == confidence_call.error_count
            tn == confidence_call.total_nodes
            syntax == IF confidence_call.has_syntax_errors THEN 7 ELSE 10
            \* syntax/10 * (2 tn - ec) / (2 tn)
            product == R(syntax * (2 * tn - ec), 20 * tn)
        IN  /\ InUnit(confidence_call.result)
            /\ tn = 0 => confidence_call.result = Zero
            /\ tn # 0 =>
                  confidence_call.result =
                      (IF product[1] < 0 THEN Zero
                       ELSE IF product[1] > product[2] THEN One ELSE product)

\* a call with more ERROR nodes than twice the nodes, where the product is
\* negative, and one with a syntax error and some ERROR nodes
C25_Witness ==
    /\ confidence_call.op = "parse"
    /\ confidence_call.total_nodes > 0
    /\ confidence_call.error_count > 2 * confidence_call.total_nodes
    /\ confidence_call.has_syntax_errors
    /\ confidence_call.result = Zero

\* C26: calculate_relationship_confidence starts from the source confidence,
\* halves it when the target does not exist, multiplies it by 1.1 capped at
\* 1.0 when the target exists and the reference resolved, and clamps to
\* [0, 1]: the result never exceeds 1.0, a missing target never raises the
\* confidence, and the resolved flag has no effect when the target is missing.
C26_RelationshipConfidenceFormula ==
    confidence_call.op = "relationship" =>
        LET src == confidence_call.source_confidence
            result == confidence_call.result
            bonus == R(11 * src[1], 10 * src[2])
        IN  /\ RLe(result, One)
            /\ RLe(Zero, result)
            /\ ~confidence_call.target_exists =>
                  /\ result = R(src[1], 2 * src[2])
                  /\ RLe(result, src)
            /\ (confidence_call.target_exists /\ confidence_call.import_resolved)
                  => result = (IF RLe(bonus, One) THEN bonus ELSE One)
            /\ (confidence_call.target_exists /\ ~confidence_call.import_resolved)
                  => result = src

\* a missing target with the reference resolved all the same
C26_Witness ==
    /\ confidence_call.op = "relationship"
    /\ ~confidence_call.target_exists
    /\ confidence_call.import_resolved
    /\ RGt(confidence_call.source_confidence, Zero)
    /\ RLt(confidence_call.result, confidence_call.source_confidence)

(***************************************************************************)
(* Claims about the edges the distance is computed on (under SpecDist)     *)
(***************************************************************************)
\* C27: calculate_distance reads each edge's metadata source_id and
\* target_id, so on edges that carry the two ids inside metadata only it
\* neither fails nor calls a linked pair unreachable: a direct edge from the
\* source to a different target gives one hop.
C27_AdjacencyFromMetadata ==
    (dist_call.called /\ store_edges # <<>>) =>
        /\ dist_call.result.exc = ""
        /\ (/\ dist_call.source_id # dist_call.target_id
            /\ <<dist_call.source_id, dist_call.target_id>>
                   \in EdgeRelation(store_edges))
               => dist_call.result = Distance(1)

(***************************************************************************)
(* Claims about decorators (checked under SpecParse)                       *)
(***************************************************************************)
\* the named methods of a tree, in the order the walk meets them
MethodNodes(nodes) ==
    SelectSeq(_walk_tree(nodes, 1),
              LAMBDA i : /\ nodes[i].type = "method_definition"
                         /\ ChildrenOfType(nodes, i, {"property_identifier"})
                                # <<>>)

\* the decorators right before a declaration: the longest run of decorator
\* siblings that ends at it
AttachedDecorators(nodes, i) ==
    LET sibs == PrevSiblings(nodes, i)
        starts == {k \in 1 .. Len(sibs) + 1 :
                      \A j \in k .. Len(sibs) : nodes[sibs[j]].type = "decorator"}
        first == CHOOSE k \in starts : \A m \in starts : k <= m
    IN  SubSeq(sibs, first, Len(sibs))

\* C28: the decorator list of a declaration holds exactly the decorators of
\* the contiguous run of decorator siblings right before it, in source
\* order, each named by its identifier (for a call, the call target's): the
\* decorator of an earlier method is never attributed to a later one.
C28_DecoratorsOfContiguousRun ==
    methods_call.called =>
        LET nodes == methods_call.content.nodes
            methods == MethodNodes(nodes)
        IN  /\ Len(methods_call.result) = Len(methods)
            /\ \A k \in 1 .. Len(methods) :
                  k <= Len(methods_call.result) =>
                      LET attached == AttachedDecorators(nodes, methods[k])
                      IN  methods_call.result[k].decorators =
                              [j \in 1 .. Len(attached) |->
                                  _extract_decorator_name(nodes, attached[j])]

(***************************************************************************)
(* Claims about the search loop (checked under SpecBfs)                    *)
(***************************************************************************)
\* no node id was appended to the queue twice
EnqueuedOnce ==
    \A i \in 1 .. Len(bfs_call.queue), j \in 1 .. Len(bfs_call.queue) :
        bfs_call.queue[i][1] = bfs_call.queue[j][1] => i = j

\* the node ids of the edge list, and the source
SearchNodes ==
    {bfs_call.source_id}
        \cup {store_edges[i].source_id : i \in 1 .. Len(store_edges)}
        \cup {store_edges[i].target_id : i \in 1 .. Len(store_edges)}

\* C29: calculate_distance terminates for every finite edge list, cycles,
\* self-loops and duplicate edges included: each node id is enqueued at most
\* once, so there is at most one dequeue per reachable node and the call
\* returns.
C29_SearchTerminates ==
    /\ [](bfs_call.pc # "idle" =>
             /\ EnqueuedOnce
             /\ bfs_call.head <= Len(bfs_call.queue)
             /\ Len(bfs_call.queue) <= Cardinality(SearchNodes))
    /\ (bfs_call.pc = "running") ~> (bfs_call.pc = "done")

\* a search that ended without a path on a list with a cycle through the
\* source, next to a self-loop or a duplicate edge
C29_Witness ==
    /\ bfs_call.pc = "done"
    /\ bfs_call.result.inf
    /\ \E i \in 1 .. Len(store_edges), j \in 1 .. Len(store_edges) :
          /\ store_edges[i].source_id = bfs_call.source_id
          /\ store_edges[j].target_id = bfs_call.source_id
          /\ store_edges[i].target_id = store_edges[j].source_id
          /\ store_edges[i].target_id # bfs_call.source_id
    /\ \E i \in 1 .. Len(store_edges) :
          \/ store_edges[i].source_id = store_edges[i].target_id
          \/ \E j \in 1 .. Len(store_edges) :
                 i # j /\ store_edges[i] = store_edges[j]
    /\ bfs_call.head = 2

(***************************************************************************)
(* Claims about the files in the store (checked under Spec)                *)
(***************************************************************************)
\* the paths a run counts as indexed: the files whose build raises nothing
CountedPaths(fsys) ==
    {p \in rglob(fsys) : build_from_file(fsys, p, "python").exc = ""}

\* C30: after index_repository ran on an empty store, the store holds as
\* many FileNodes as files_indexed says and every path counted as indexed is
\* the path of a stored FileNode, also when several files have the same
\* content.
C30_StoreMatchesFilesIndexed ==
    (RunReturned /\ runs = 1) =>
        /\ Len(store_files) = index_result.files_indexed
        /\ CountedPaths(fs) \subseteq PathsIn(store_files)

====
